---- MODULE Spec2Model ----
(***************************************************************************)
(* Strong-wind period detection, multi-site aggregation and distribution   *)
(* statistics of the NZ wind-farm analysis services.                       *)
(*                                                                         *)
(* Time: a timestamp is a whole number of hours counted from local         *)
(* midnight of day 0 (the provider's series are hourly), so                *)
(* moment(t).format("YYYY-MM-DD") is t \div 24, moment(t).hour() is t % 24 *)
(* and moment(b).diff(moment(a), "hours", true) is b - a.                  *)
(* Speeds are whole km/h.  A mean is kept as the exact fraction num/den.   *)
(* Directions are in quarter degrees (90 units = 22.5 degrees), so that    *)
(* the sector boundaries 11.25, 33.75, ... are representable.              *)
(* A Reading carries the fields the analysed operations read: timestamp,   *)
(* windSpeedKmh (10 m), windSpeed100mKmh (100 m) and windDirection.        *)
(***************************************************************************)
EXTENDS Integers, Sequences, FiniteSets, TLC

VARIABLES
    data,        \* reading sequence handed to a detector / a distribution
    threshold,   \* strongWindThreshold field, or the threshold argument
    minDur,      \* minimumDurationHours field of StrongWindPeriodsService
    detector,    \* which operation produced the result: "none" before a call
    periods,     \* the value returned by the detector
    windFarms,   \* StrongWindPeriodsService.windFarms, the loaded site list
    upstream,    \* what the reading source answers for each site of the list
    aggPc,       \* analyzeStrongWindPeriods: "idle", "loop" or "done"
    aggIdx,      \* position of the for loop in windFarms
    windFarmAnalysis,      \* local list of analyzeStrongWindPeriods
    nzStrongWindPeriods,   \* local list of analyzeStrongWindPeriods
    aggResult,   \* the value the batch analysis returns
    analysisResults,   \* local list of analyzeStrongWindEvent
    eventSummary,      \* local object of analyzeStrongWindEvent
    farmResults,       \* local list of analyzeTimePeriods
    statsOp,     \* which distribution was computed: "none" before a call
    stats,       \* the value returned by that function
    args,        \* the arguments of a call that does not take the series
    fetchLog,    \* the requests a batch analysis sent to the reading source
    requests,    \* the HTTP requests the server is serving, by request id
    siteCache,   \* this.windFarms of the services that load the list lazily
    fileReads    \* how often each of these services has read the site file

detVars == <<data, threshold, minDur, detector, periods>>

batchVars == <<analysisResults, eventSummary, farmResults>>

aggVars == <<windFarms, upstream, aggPc, aggIdx, windFarmAnalysis,
             nzStrongWindPeriods, aggResult, batchVars, fetchLog>>

statVars == <<statsOp, stats, args>>

srvVars == <<requests, siteCache, fileReads>>

vars == <<detVars, aggVars, statVars, srvVars>>

(***************************** input bounds ********************************)
MaxLen == 3                       \* longest enumerated reading sequence
GapHours == {1, 3}                \* hours between consecutive readings
SpeedsRef == {50, 70}             \* 10 m speeds
SpeedsHub == {50, 60, 70}         \* 100 m speeds
Thresholds == {60, 70}            \* 60 is the services' default
MinDurs == {0, 1, 2, 6, 7}        \* 6 is the service's default
NumSites == 2                     \* sites in the loaded site list
SegHours == {5, 12}               \* lengths of the calm / strong stretches
MedianLen == 4                    \* longest list handed to calculateMedian
MedianValues == {10, 20, 30, 40}  \* the numbers of those lists
FirstHours == {0, 23}             \* hour of the first reading of a series
DayGapHours == {1, 24}            \* gaps that keep the date or keep the hour
StatSpeeds == {50, 100}           \* speeds below / at the extreme threshold
Directions == {0, 45, 1440}       \* 0, 11.25 and 360 degrees

extremeWindThreshold == 100
Infinity == 1000000

strongWindThreshold == 60
minimumDurationHours == 6

Reading(ts, ref, hub, dir) ==
    [timestamp |-> ts, windSpeedKmh |-> ref, windSpeed100mKmh |-> hub,
     windDirection |-> dir]

\* all sequences of s extended by one later reading
ExtendSeries(S) ==
    { Append(s, Reading(IF s = <<>> THEN 0 ELSE s[Len(s)].timestamp + g, ref, hub, 0)) :
        s \in S, g \in GapHours, ref \in SpeedsRef, hub \in SpeedsHub }

RECURSIVE SeriesUpTo(_)
SeriesUpTo(n) ==
    IF n = 0 THEN {<<>>}
    ELSE LET prev == SeriesUpTo(n - 1)
         IN  prev \cup ExtendSeries(prev)

\* the documented day: hourly 00:00..23:00, hub speed 70 at 02:00..07:00, 50 otherwise
ExampleDay ==
    [h \in 1..24 |->
        Reading(h - 1, 50, IF h - 1 >= 2 /\ h - 1 <= 7 THEN 70 ELSE 50, 0)]

Inputs == SeriesUpTo(MaxLen) \cup {ExampleDay}

SiteA == [name |-> "A", lat |-> 0, lon |-> 0, region |-> "R1"]

(************************* shared numeric helpers **************************)
Null == [null |-> TRUE]

Max2(a, b) == IF a >= b THEN a ELSE b

RECURSIVE SumOf(_, _)
\* readings.reduce((sum, r) => sum + f(r), 0) for the field named f
SumOf(readings, f) ==
    IF readings = <<>> THEN 0
    ELSE readings[1][f] + SumOf(Tail(readings), f)

RECURSIVE MaxOf(_, _)
\* Math.max(...readings.map(r => r[f])) of a non-empty list
MaxOf(readings, f) ==
    IF Len(readings) = 1 THEN readings[1][f]
    ELSE Max2(readings[1][f], MaxOf(Tail(readings), f))

Mean(readings, f) == [num |-> SumOf(readings, f), den |-> Len(readings)]

\* moment(b).diff(moment(a), "hours", true)
DiffHours(endTs, startTs) == endTs - startTs

\* the {hours, minutes, totalMinutes, totalMilliseconds} record built from
\* moment.duration(moment(end).diff(moment(start)))
MomentDuration(endTs, startTs) ==
    LET ms == (endTs - startTs) * 3600000
    IN  [hours |-> ms \div 3600000,
         minutes |-> (ms \div 60000) % 60,
         totalMinutes |-> ms \div 60000,
         totalMilliseconds |-> ms]

MutIsStrongWind(speed, th) == speed > th
\* windSpeed >= threshold
IsStrongWind(speed, th) == speed >= th

(************ StrongWindPeriodsService.findStrongWindPeriods ***************)
\* the period object opened at the first qualifying reading
SWP_Open(reading, windFarm) ==
    [startTime |-> reading.timestamp,
     startWindSpeed |-> reading.windSpeed100mKmh,
     maxWindSpeed |-> reading.windSpeed100mKmh,
     readings |-> <<reading>>,
     windFarm |-> [string |-> windFarm.name]]

MutSWP_Continue(cp, reading) == [cp EXCEPT !.readings = Append(@, reading)]
\* a further qualifying reading: pushed, and the running maximum is updated
SWP_Continue(cp, reading) ==
    [cp EXCEPT !.readings = Append(@, reading),
               !.maxWindSpeed = Max2(@, reading.windSpeed100mKmh)]

\* endTime, durationHours and avgWindSpeed are set when the period is closed
SWP_Close(cp, endTs) ==
    cp @@ [endTime |-> endTs,
           durationHours |-> DiffHours(endTs, cp.startTime),
           avgWindSpeed |-> Mean(cp.readings, "windSpeed100mKmh")]

MutSWP_Keep(p, minimum) == p.durationHours <= minimum
\* only periods that meet the minimum duration are pushed
SWP_Keep(p, minimum) == p.durationHours >= minimum

MutSWP_EndOfRun(cp, reading) == cp.readings[Len(cp.readings)].timestamp
\* a run closed in mid-scan ends at the reading that broke it
SWP_EndOfRun(cp, reading) == reading.timestamp

MutSWP_EndOfData(d) == d[Len(d)].timestamp + 1
\* a run still open after the scan ends at the last reading of the data
SWP_EndOfData(d) == d[Len(d)].timestamp

RECURSIVE SWP_Loop(_, _, _, _, _, _, _)
\* the for loop from reading i on, with the locals currentPeriod and periods
\* (out); yields the locals as they are when the loop ends
SWP_Loop(d, i, currentPeriod, out, windFarm, th, minimum) ==
    IF i > Len(d) THEN [cur |-> currentPeriod, out |-> out]
    ELSE LET reading == d[i]
             isStrongWind == IsStrongWind(reading.windSpeed100mKmh, th)
         IN  IF isStrongWind /\ currentPeriod = Null
             THEN SWP_Loop(d, i + 1, SWP_Open(reading, windFarm), out,
                           windFarm, th, minimum)
             ELSE IF isStrongWind /\ currentPeriod # Null
             THEN SWP_Loop(d, i + 1, SWP_Continue(currentPeriod, reading), out,
                           windFarm, th, minimum)
             ELSE IF ~isStrongWind /\ currentPeriod # Null
             THEN LET closed == SWP_Close(currentPeriod,
                                          SWP_EndOfRun(currentPeriod, reading))
                  IN  SWP_Loop(d, i + 1, Null,
                               IF SWP_Keep(closed, minimum)
                               THEN Append(out, closed) ELSE out,
                               windFarm, th, minimum)
             ELSE SWP_Loop(d, i + 1, currentPeriod, out, windFarm, th, minimum)

SWP_findStrongWindPeriods(d, windFarm, th, minimum) ==
    LET st == SWP_Loop(d, 1, Null, <<>>, windFarm, th, minimum)
    IN  IF st.cur # Null
        THEN LET closed == SWP_Close(st.cur, SWP_EndOfData(d))
             IN  IF SWP_Keep(closed, minimum)
                 THEN Append(st.out, closed) ELSE st.out
        ELSE st.out

(********** MultiLocationAnalysisService.findStrongWindPeriods *************)
MLA_Open(reading) ==
    [start |-> reading.timestamp,
     startWindSpeed |-> reading.windSpeedKmh,
     readings |-> <<reading>>]

MutMLA_Continue(cp, reading) == [cp EXCEPT !.readings = <<reading>>]
\* currentPeriod.readings.push(reading)
MLA_Continue(cp, reading) == [cp EXCEPT !.readings = Append(@, reading)]

MLA_Close(cp, endTs) ==
    cp @@ [end |-> endTs,
           duration |-> MomentDuration(endTs, cp.start),
           maxWindSpeed |-> MaxOf(cp.readings, "windSpeedKmh"),
           avgWindSpeed |-> Mean(cp.readings, "windSpeedKmh")]

RECURSIVE MLA_Loop(_, _, _, _, _)
MLA_Loop(d, i, currentPeriod, out, th) ==
    IF i > Len(d) THEN [cur |-> currentPeriod, out |-> out]
    ELSE LET reading == d[i]
             isStrongWind == IsStrongWind(reading.windSpeedKmh, th)
         IN  IF isStrongWind /\ currentPeriod = Null
             THEN MLA_Loop(d, i + 1, MLA_Open(reading), out, th)
             ELSE IF isStrongWind /\ currentPeriod # Null
             THEN MLA_Loop(d, i + 1, MLA_Continue(currentPeriod, reading), out, th)
             ELSE IF ~isStrongWind /\ currentPeriod # Null
             THEN MLA_Loop(d, i + 1, Null,
                           Append(out, MLA_Close(currentPeriod, reading.timestamp)),
                           th)
             ELSE MLA_Loop(d, i + 1, currentPeriod, out, th)

MLA_findStrongWindPeriods(d, th) ==
    LET st == MLA_Loop(d, 1, Null, <<>>, th)
    IN  IF st.cur # Null
        THEN Append(st.out, MLA_Close(st.cur, d[Len(d)].timestamp))
        ELSE st.out

(**************** WindAnalysisService.findStrongWindPeriods ****************)
WAS_Open(reading) ==
    [start |-> reading.timestamp,
     startWindSpeed |-> reading.windSpeedKmh,
     startWindSpeed100m |-> reading.windSpeed100mKmh,
     readings |-> <<reading>>]

WAS_Continue(cp, reading) == [cp EXCEPT !.readings = Append(@, reading)]

\* the fields set at either close; endWindSpeed is added in mid-scan only
WAS_Close(cp, endTs) ==
    cp @@ [end |-> endTs,
           duration |-> MomentDuration(endTs, cp.start),
           maxWindSpeed |-> MaxOf(cp.readings, "windSpeedKmh"),
           maxWindSpeed100m |-> MaxOf(cp.readings, "windSpeed100mKmh"),
           avgWindSpeed |-> Mean(cp.readings, "windSpeedKmh")]

RECURSIVE WAS_Loop(_, _, _, _, _)
WAS_Loop(d, i, currentPeriod, out, th) ==
    IF i > Len(d) THEN [cur |-> currentPeriod, out |-> out]
    ELSE LET reading == d[i]
             isStrongWind == IsStrongWind(reading.windSpeedKmh, th)
         IN  IF isStrongWind /\ currentPeriod = Null
             THEN WAS_Loop(d, i + 1, WAS_Open(reading), out, th)
             ELSE IF isStrongWind /\ currentPeriod # Null
             THEN WAS_Loop(d, i + 1, WAS_Continue(currentPeriod, reading), out, th)
             ELSE IF ~isStrongWind /\ currentPeriod # Null
             THEN WAS_Loop(d, i + 1, Null,
                           Append(out,
                                  WAS_Close(currentPeriod, reading.timestamp)
                                    @@ [endWindSpeed |-> reading.windSpeedKmh]),
                           th)
             ELSE WAS_Loop(d, i + 1, currentPeriod, out, th)

MutWAS_findStrongWindPeriods(d, th) == WAS_Loop(d, 1, Null, <<>>, th).out
WAS_findStrongWindPeriods(d, th) ==
    LET st == WAS_Loop(d, 1, Null, <<>>, th)
    IN  IF st.cur # Null
        THEN Append(st.out, WAS_Close(st.cur, d[Len(d)].timestamp))
        ELSE st.out

(***************************** the detectors *******************************)
\* no request is served concurrently with another one
ServerIdle ==
    /\ requests = <<>>
    /\ siteCache = Null
    /\ fileReads = Null

\* no multi-site analysis is requested
\* no analyzeStrongWindEvent or analyzeTimePeriods call has run
BatchIdle ==
    /\ analysisResults = <<>>
    /\ eventSummary = Null
    /\ farmResults = <<>>

AggIdle ==
    /\ BatchIdle
    /\ windFarms = <<>>
    /\ upstream = <<>>
    /\ aggPc = "idle"
    /\ aggIdx = 0
    /\ fetchLog = <<>>
    /\ ServerIdle
    /\ windFarmAnalysis = <<>>
    /\ nzStrongWindPeriods = <<>>
    /\ aggResult = Null

\* no distribution is computed
StatsIdle ==
    /\ statsOp = "none"
    /\ stats = Null
    /\ args = Null

Init ==
    /\ data \in Inputs
    /\ threshold = strongWindThreshold
    /\ minDur = minimumDurationHours
    /\ detector = "none"
    /\ periods = <<>>
    /\ AggIdle
    /\ StatsIdle

\* strongWindPeriodsService.findStrongWindPeriods(data, windFarm) with the
\* fields strongWindThreshold = th and minimumDurationHours = m
RunSWP ==
    /\ detector = "none"
    /\ \E th \in Thresholds, m \in MinDurs :
          /\ threshold' = th
          /\ minDur' = m
          /\ periods' = SWP_findStrongWindPeriods(data, SiteA, th, m)
    /\ detector' = "SWP"
    /\ UNCHANGED <<srvVars, data, aggVars, statVars>>

\* multiLocationAnalysisService.findStrongWindPeriods(data, th)
RunMLA ==
    /\ detector = "none"
    /\ \E th \in Thresholds :
          /\ threshold' = th
          /\ periods' = MLA_findStrongWindPeriods(data, th)
    /\ detector' = "MLA"
    /\ UNCHANGED <<srvVars, data, minDur, aggVars, statVars>>

\* windAnalysisService.findStrongWindPeriods(data) with strongWindThreshold = th
RunWAS ==
    /\ detector = "none"
    /\ \E th \in Thresholds :
          /\ threshold' = th
          /\ periods' = WAS_findStrongWindPeriods(data, th)
    /\ detector' = "WAS"
    /\ UNCHANGED <<srvVars, data, minDur, aggVars, statVars>>

Next == RunSWP \/ RunMLA \/ RunWAS

Spec == Init /\ [][Next]_vars

(************************ properties of the detectors **********************)
\* the speed field the detector that ran compares with the threshold
Tested == IF detector = "SWP" THEN "windSpeed100mKmh" ELSE "windSpeedKmh"

Qualifies(i) == data[i][Tested] >= threshold

PStart(p) == IF detector = "SWP" THEN p.startTime ELSE p.start

PEnd(p) == IF detector = "SWP" THEN p.endTime ELSE p.end

PHours(p) == IF detector = "SWP" THEN p.durationHours ELSE p.duration.hours

\* position in the input of the reading with timestamp ts (0 when absent)
IndexOf(ts) ==
    IF \E i \in 1..Len(data) : data[i].timestamp = ts
    THEN CHOOSE i \in 1..Len(data) : data[i].timestamp = ts
    ELSE 0

FirstIdx(p) == IndexOf(p.readings[1].timestamp)

LastIdx(p) == IndexOf(p.readings[Len(p.readings)].timestamp)

\* the maximal runs of qualifying readings, as <<first index, last index>>
MaxRuns ==
    { r \in (1..Len(data)) \X (1..Len(data)) :
        /\ r[1] <= r[2]
        /\ \A i \in r[1]..r[2] : Qualifies(i)
        /\ (r[1] = 1 \/ ~Qualifies(r[1] - 1))
        /\ (r[2] = Len(data) \/ ~Qualifies(r[2] + 1)) }

IsRun(p, r) == p.readings = SubSeq(data, r[1], r[2])

\* C1: every reading stored in an emitted period has tested speed >= threshold,
\* and the input reading right after the period's last reading, if any, is
\* below the threshold (all three detectors).
C1_ReadingsQualifyAndNextDoesNot ==
    detector # "none" =>
        \A k \in 1..Len(periods) :
            LET p == periods[k]
            IN  /\ \A j \in 1..Len(p.readings) :
                      /\ p.readings[j][Tested] >= threshold
                      /\ IndexOf(p.readings[j].timestamp) # 0
                      /\ data[IndexOf(p.readings[j].timestamp)] = p.readings[j]
                /\ LastIdx(p) < Len(data) => ~Qualifies(LastIdx(p) + 1)

C1_Witness ==
    /\ detector = "MLA"
    /\ \E k \in 1..Len(periods) :
          /\ Len(periods[k].readings) >= 2
          /\ LastIdx(periods[k]) < Len(data)

\* C2: emitted periods are maximal: a period's readings are consecutive input
\* readings, the reading right before its first reading (if any) is below the
\* threshold, and between two emitted periods lies a sub-threshold reading
\* (StrongWindPeriodsService and MultiLocationAnalysisService detectors).
C2_PeriodsMaximal ==
    detector \in {"SWP", "MLA"} =>
        /\ \A k \in 1..Len(periods) :
              LET p == periods[k]
              IN  /\ FirstIdx(p) # 0
                  /\ p.readings =
                        SubSeq(data, FirstIdx(p), FirstIdx(p) + Len(p.readings) - 1)
                  /\ FirstIdx(p) > 1 => ~Qualifies(FirstIdx(p) - 1)
        /\ \A k \in 1..(Len(periods) - 1) :
              \E j \in (LastIdx(periods[k]) + 1)..(FirstIdx(periods[k + 1]) - 1) :
                  ~Qualifies(j)

C2_Witness ==
    /\ detector = "MLA"
    /\ Len(periods) = 2
    /\ FirstIdx(periods[2]) = 3

\* C3: with no minimum-duration filter the detector emits exactly one period
\* per maximal run of readings with tested speed >= threshold (equality
\* qualifies), in input order, each holding exactly that run's readings; an
\* input without a qualifying reading, the empty one included, yields none.
C3_OnePeriodPerMaximalRun ==
    (detector = "WAS" \/ (detector = "SWP" /\ minDur = 0)) =>
        /\ Len(periods) = Cardinality(MaxRuns)
        /\ \A k \in 1..Len(periods) : \E r \in MaxRuns : IsRun(periods[k], r)
        /\ \A r \in MaxRuns : \E k \in 1..Len(periods) : IsRun(periods[k], r)
        /\ \A k \in 1..(Len(periods) - 1) :
              PStart(periods[k]) < PStart(periods[k + 1])
        /\ (\A i \in 1..Len(data) : ~Qualifies(i)) => periods = <<>>

C3_Witness ==
    /\ detector = "SWP"
    /\ minDur = 0
    /\ Len(periods) = 2
    /\ \E i \in 1..Len(data) : data[i].windSpeed100mKmh = threshold

\* C4: the minimum-duration filter is monotonic: the periods emitted with a
\* minimum m2 are among those emitted with any m1 <= m2 on the same input, so
\* raising the minimum never increases the number of periods.
C4_MinimumDurationMonotonic ==
    detector = "SWP" =>
        \A m1 \in MinDurs :
            m1 <= minDur =>
                LET more == SWP_findStrongWindPeriods(data, SiteA, threshold, m1)
                IN  /\ \A k \in 1..Len(periods) :
                          \E l \in 1..Len(more) : more[l] = periods[k]
                    /\ Len(periods) <= Len(more)

C4_Witness ==
    /\ detector = "SWP"
    /\ minDur = 2
    /\ Len(periods) = 1
    /\ Len(SWP_findStrongWindPeriods(data, SiteA, threshold, 0)) = 2

\* the period the 02:00..07:00 run of the documented day must produce
ExamplePeriod ==
    [startTime |-> 2, endTime |-> 8, durationHours |-> 6,
     startWindSpeed |-> 70, maxWindSpeed |-> 70,
     avgWindSpeed |-> [num |-> 420, den |-> 6],
     readings |-> SubSeq(ExampleDay, 3, 8),
     windFarm |-> [string |-> "A"]]

\* C5: a run closed in mid-scan ends at the timestamp of the first
\* sub-threshold reading (not one of its readings), its durationHours is
\* end - start by the timestamps, and it is emitted iff that duration is >=
\* the minimum; on the documented day (threshold 60) minimum 6 gives exactly
\* the period 02:00-08:00 of 6 hours with maxSpeed 70 and minimum 7 gives none.
C5_MidScanCloseAndExample ==
    detector = "SWP" =>
        /\ \A r \in MaxRuns :
              r[2] < Len(data) =>
                  LET span == data[r[2] + 1].timestamp - data[r[1]].timestamp
                  IN  /\ (\E k \in 1..Len(periods) : IsRun(periods[k], r))
                          <=> span >= minDur
                      /\ \A k \in 1..Len(periods) :
                            IsRun(periods[k], r) =>
                                /\ periods[k].endTime = data[r[2] + 1].timestamp
                                /\ periods[k].startTime = data[r[1]].timestamp
                                /\ periods[k].durationHours = span
        /\ (data = ExampleDay /\ threshold = 60 /\ minDur = 6)
              => periods = <<ExamplePeriod>>
        /\ (data = ExampleDay /\ threshold = 60 /\ minDur = 7)
              => periods = <<>>

C5_Witness ==
    /\ detector = "SWP"
    /\ data = ExampleDay
    /\ threshold = 60
    /\ minDur = 6
    /\ Len(periods) = 1

\* first index of the run of qualifying readings that reaches the end of data
TrailStart ==
    CHOOSE a \in 1..Len(data) :
        /\ \A i \in a..Len(data) : Qualifies(i)
        /\ (a = 1 \/ ~Qualifies(a - 1))

\* C6: when the last reading qualifies, the open run is closed after the scan
\* with end = the last reading's timestamp (a reading of the period), so its
\* duration is last timestamp - start (0 for a single trailing reading); it is
\* emitted only if that duration is >= the minimum, so a single trailing
\* reading fails every positive minimum.
C6_TrailingRunEndsAtLastReading ==
    (detector \in {"SWP", "WAS"} /\ data # <<>> /\ Qualifies(Len(data))) =>
        LET r == <<TrailStart, Len(data)>>
            span == data[Len(data)].timestamp - data[TrailStart].timestamp
            emitted == \E k \in 1..Len(periods) : IsRun(periods[k], r)
        IN  /\ emitted <=> (detector = "WAS" \/ span >= minDur)
            /\ emitted =>
                  LET p == periods[Len(periods)]
                  IN  /\ IsRun(p, r)
                      /\ PEnd(p) = data[Len(data)].timestamp
                      /\ PEnd(p) = p.readings[Len(p.readings)].timestamp
                      /\ PHours(p) = span
            /\ (TrailStart = Len(data) /\ emitted) => PHours(periods[Len(periods)]) = 0
            /\ (TrailStart = Len(data) /\ detector = "SWP" /\ minDur > 0) => ~emitted

C6_Witness ==
    /\ detector = "SWP"
    /\ minDur = 2
    /\ Len(data) = 3
    /\ Qualifies(3)
    /\ TrailStart = 2
    /\ Len(periods) = 1
    /\ periods[1].durationHours = 3

(************ StrongWindPeriodsService.analyzeStrongWindPeriods ************)
Undefined == "undefined"

\* moment(ts).format("YYYY-MM-DD")
DateOf(ts) == ts \div 24

Site(i) ==
    [name |-> "WF" \o ToString(i), lat |-> i, lon |-> i, region |-> "R",
     capacity |-> 10 * i]

\* the site list built by loadWindFarms from the data file
LoadedWindFarms == [i \in 1..NumSites |-> Site(i)]

\* index of the stretch that holds hour h (0-based) of a series of stretches
SegOf(shape, h) ==
    CHOOSE k \in 1..Len(shape) :
        /\ h < SumOf([j \in 1..k |-> [hours |-> shape[j]]], "hours")
        /\ h >= SumOf([j \in 1..(k - 1) |-> [hours |-> shape[j]]], "hours")

\* an hourly series from local midnight: stretches of calm (hub 50) and of
\* strong (hub 70) wind alternate, the first one strong iff firstStrong
HourlySeries(firstStrong, shape) ==
    [h \in 1..SumOf([j \in 1..Len(shape) |-> [hours |-> shape[j]]], "hours") |->
        Reading(h - 1, 50,
                IF (SegOf(shape, h - 1) % 2 = 1) = firstStrong THEN 70 ELSE 50,
                0)]

SegShapes == SegHours \X SegHours \X SegHours

\* answers of the archive API for one site: an hourly series, or a failure
Responses ==
    { [ok |-> TRUE, hourly |-> HourlySeries(f, sh)] : f \in BOOLEAN, sh \in SegShapes }
        \cup {[ok |-> FALSE]}

\* getHistoricalData: the formatted series, or [] when the request throws
WDS_getHistoricalData(resp) == IF resp.ok THEN resp.hourly ELSE <<>>

\* getWindData(...).historical
WDS_getWindData(resp) == [historical |-> WDS_getHistoricalData(resp)]

\* v.name of a JavaScript value: a string has no property "name"
JsName(v) == IF "name" \in DOMAIN v THEN v.name ELSE Undefined

\* { windFarm: windFarm, ...period }: the period's own properties are copied
\* last, so they win over the ones written before the spread
AGG_Spread(windFarm, period) == period @@ [windFarm |-> windFarm]

AGG_SiteAnalysis(windFarm, ps) ==
    [windFarm |-> windFarm,
     periods |-> ps,
     totalPeriods |-> Len(ps),
     totalDuration |-> SumOf(ps, "durationHours"),
     maxWindSpeed |-> MaxOf(ps, "maxWindSpeed")]

MutInsertByStart(acc, x) == Append(acc, x)
\* stable insertion of x by ascending startTime
InsertByStart(acc, x) ==
    LET pos == Cardinality({j \in 1..Len(acc) : acc[j].startTime <= x.startTime})
    IN  SubSeq(acc, 1, pos) \o <<x>> \o SubSeq(acc, pos + 1, Len(acc))

RECURSIVE SortByStart(_)
\* nzStrongWindPeriods.sort((a, b) => moment(a.startTime).diff(moment(b.startTime)))
SortByStart(ps) ==
    IF ps = <<>> THEN <<>>
    ELSE InsertByStart(SortByStart(SubSeq(ps, 1, Len(ps) - 1)), ps[Len(ps)])

RECURSIVE AGG_GroupInto(_, _)
AGG_GroupInto(ps, grouped) ==
    IF ps = <<>> THEN grouped
    ELSE LET date == DateOf(ps[1].startTime)
             next ==
                 IF \E k \in 1..Len(grouped) : grouped[k].date = date
                 THEN [k \in 1..Len(grouped) |->
                          IF grouped[k].date = date
                          THEN [grouped[k] EXCEPT !.periods = Append(@, ps[1])]
                          ELSE grouped[k]]
                 ELSE Append(grouped, [date |-> date, periods |-> <<ps[1]>>])
         IN  AGG_GroupInto(Tail(ps), next)

\* the date-keyed object, as its entries in insertion order
AGG_groupPeriodsByDate(ps) == AGG_GroupInto(ps, <<>>)

RECURSIVE Dedupe(_)
\* Array.from(new Set(list)): first occurrences, in order
Dedupe(list) ==
    IF list = <<>> THEN <<>>
    ELSE LET front == Dedupe(SubSeq(list, 1, Len(list) - 1))
             x == list[Len(list)]
         IN  IF \E j \in 1..Len(front) : front[j] = x THEN front
             ELSE Append(front, x)

MutAGG_UniqueWindFarms(ps) == [k \in 1..Len(ps) |-> JsName(ps[k].windFarm)]
\* new Set(periods.map((p) => p.windFarm.name))
AGG_UniqueWindFarms(ps) == Dedupe([k \in 1..Len(ps) |-> JsName(ps[k].windFarm)])

MutAGG_IsNZStrongWindDay(uniqueWindFarms) == Len(uniqueWindFarms) >= 2
\* uniqueWindFarms.size >= 1
AGG_IsNZStrongWindDay(uniqueWindFarms) == Len(uniqueWindFarms) >= 1

AGG_Day(entry) ==
    LET uniqueWindFarms == AGG_UniqueWindFarms(entry.periods)
    IN  [date |-> entry.date,
         windFarms |-> uniqueWindFarms,
         windFarmCount |-> Len(uniqueWindFarms),
         periods |-> entry.periods,
         totalDuration |-> SumOf(entry.periods, "durationHours"),
         maxWindSpeed |-> MaxOf(entry.periods, "maxWindSpeed")]

\* stable insertion of x by descending windFarmCount
InsertByCount(acc, x) ==
    LET pos == Cardinality({j \in 1..Len(acc) : acc[j].windFarmCount >= x.windFarmCount})
    IN  SubSeq(acc, 1, pos) \o <<x>> \o SubSeq(acc, pos + 1, Len(acc))

RECURSIVE SortByCount(_)
\* nzStrongWindDays.sort((a, b) => b.windFarmCount - a.windFarmCount)
SortByCount(days) ==
    IF days = <<>> THEN <<>>
    ELSE InsertByCount(SortByCount(SubSeq(days, 1, Len(days) - 1)), days[Len(days)])

AGG_findNZStrongWindDays(periodsByDate) ==
    SortByCount(
        SelectSeq([k \in 1..Len(periodsByDate) |-> AGG_Day(periodsByDate[k])],
                  LAMBDA d : AGG_IsNZStrongWindDay(d.windFarms)))

\* a request sent to the archive API: by which service, for which site of
\* the list and which window of the request (0: the whole period), and
\* whether it was answered
Fetch(service, site, window) ==
    [service |-> service, site |-> site, window |-> window,
     ok |-> upstream[site].ok]

\* getWindData calls getHistoricalData once for the site
WDS_Fetches(site) == <<Fetch("WDS", site, 0)>>

\* analyzeWindFarmDuringEvent calls getWindDataForPeriod once for the farm
MLA_Fetches(site) == <<Fetch("MLA", site, 0)>>

\* analyzeWindFarmForTimePeriods calls getWindDataForPeriod for every period
\* of the list, whatever the earlier calls answered
TPA_Fetches(site, timePeriods) ==
    [w \in 1..Len(timePeriods) |-> Fetch("TPA", site, w)]

\* a request for the strong-wind periods analysis arrives
AnalyzeBegin ==
    /\ aggPc = "idle"
    /\ aggPc' = "loop"
    /\ aggIdx' = 1
    /\ windFarmAnalysis' = <<>>
    /\ nzStrongWindPeriods' = <<>>
    /\ UNCHANGED <<srvVars, detVars, fetchLog, statVars, batchVars, windFarms, upstream, aggResult>>

\* one iteration of the loop over the sites: fetch, detect, record
AnalyzeSite ==
    /\ aggPc = "loop"
    /\ aggIdx <= Len(windFarms)
    /\ LET windFarm == windFarms[aggIdx]
           windData == WDS_getWindData(upstream[aggIdx])
           ps == SWP_findStrongWindPeriods(windData.historical, windFarm,
                                           threshold, minDur)
       IN  IF Len(ps) > 0
           THEN /\ windFarmAnalysis' =
                      Append(windFarmAnalysis, AGG_SiteAnalysis(windFarm, ps))
                /\ nzStrongWindPeriods' =
                      nzStrongWindPeriods \o
                          [k \in 1..Len(ps) |-> AGG_Spread(windFarm, ps[k])]
           ELSE UNCHANGED <<windFarmAnalysis, nzStrongWindPeriods>>
    /\ aggIdx' = aggIdx + 1
    /\ fetchLog' = fetchLog \o WDS_Fetches(aggIdx)
    /\ UNCHANGED <<srvVars, detVars, statVars, batchVars, windFarms, upstream, aggPc, aggResult>>

\* after the loop: sort, group by date, build the returned object
AnalyzeReturn ==
    /\ aggPc = "loop"
    /\ aggIdx > Len(windFarms)
    /\ LET sorted == SortByStart(nzStrongWindPeriods)
           periodsByDate == AGG_groupPeriodsByDate(sorted)
       IN  /\ nzStrongWindPeriods' = sorted
           /\ aggResult' =
                 [summary |->
                     [totalWindFarms |-> Len(windFarms),
                      windFarmsWithStrongWinds |-> Len(windFarmAnalysis),
                      totalStrongWindPeriods |-> Len(sorted),
                      totalDuration |-> SumOf(sorted, "durationHours")],
                  windFarmAnalysis |-> windFarmAnalysis,
                  nzStrongWindPeriods |-> sorted,
                  periodsByDate |-> periodsByDate,
                  nzStrongWindDays |-> AGG_findNZStrongWindDays(periodsByDate)]
    /\ aggPc' = "done"
    /\ UNCHANGED <<srvVars, detVars, fetchLog, statVars, batchVars, windFarms, upstream, aggIdx, windFarmAnalysis>>

\* no detector is called on its own
DetIdle ==
    /\ data = <<>>
    /\ threshold = strongWindThreshold
    /\ minDur = minimumDurationHours
    /\ detector = "none"
    /\ periods = <<>>

InitAgg ==
    /\ DetIdle
    /\ StatsIdle
    /\ BatchIdle
    /\ windFarms = LoadedWindFarms
    /\ upstream \in [1..NumSites -> Responses]
    /\ aggPc = "idle"
    /\ aggIdx = 0
    /\ fetchLog = <<>>
    /\ ServerIdle
    /\ windFarmAnalysis = <<>>
    /\ nzStrongWindPeriods = <<>>
    /\ aggResult = Null

NextAgg == AnalyzeBegin \/ AnalyzeSite \/ AnalyzeReturn

SpecAgg == InitAgg /\ [][NextAgg]_vars

(******************** properties of the multi-site analysis ****************)
\* the periods the detector emits for site i of the list
SitePeriods(s) ==
    LET hist == WDS_getHistoricalData(upstream[s])
        farm == windFarms[s]
    IN  SWP_findStrongWindPeriods(hist, farm, threshold, minDur)

\* the sites with at least one emitted period that starts on date d
SitesOn(day) ==
    { s \in 1..Len(windFarms) :
        \E k \in 1..Len(SitePeriods(s)) : DateOf(SitePeriods(s)[k].startTime) = day }

PeriodsOn(s, day) ==
    { k \in 1..Len(SitePeriods(s)) : DateOf(SitePeriods(s)[k].startTime) = day }

Days == aggResult.nzStrongWindDays

\* every date a period or a returned day mentions
DatesSeen ==
    { DateOf(nzStrongWindPeriods[k].startTime) : k \in 1..Len(nzStrongWindPeriods) }
        \cup { Days[k].date : k \in 1..Len(Days) }
        \cup UNION { { DateOf(SitePeriods(s)[k].startTime) :
                          k \in 1..Len(SitePeriods(s)) } : s \in 1..Len(windFarms) }

\* C7: union semantics: a date is in nzStrongWindDays iff at least one site
\* has at least one emitted period starting on it; one site suffices.
C7_UnionSemantics ==
    aggPc = "done" =>
        /\ \A day \in DatesSeen :
              (\E k \in 1..Len(Days) : Days[k].date = day) <=> SitesOn(day) # {}
        /\ \A k, l \in 1..Len(Days) : Days[k].date = Days[l].date => k = l

C7_Witness ==
    /\ aggPc = "done"
    /\ Len(Days) = 2
    /\ \E day \in DatesSeen : Cardinality(SitesOn(day)) = 1
    /\ \E day \in DatesSeen : Cardinality(SitesOn(day)) = Len(windFarms)

\* C8: when exactly one site has a period starting on date D and the others
\* have none, D is an NZ-wide strong-wind day whose site set has size 1
\* (windFarmCount = 1).
C8_SingleSiteDay ==
    aggPc = "done" =>
        \A day \in DatesSeen :
            Cardinality(SitesOn(day)) = 1 =>
                \E k \in 1..Len(Days) :
                    /\ Days[k].date = day
                    /\ Days[k].windFarmCount = 1
                    /\ Len(Days[k].windFarms) = 1

C8_Witness ==
    /\ aggPc = "done"
    /\ \E day \in DatesSeen :
          /\ SitesOn(day) = {1}
          /\ Cardinality(PeriodsOn(1, day)) = 2
          /\ PeriodsOn(2, day) = {}
          /\ \E k \in 1..Len(Days) : Days[k].date = day

\* C9: for every entry of nzStrongWindDays the site-name set is exactly the
\* set of names of the sites with a period starting on that date, and
\* windFarmCount is the number of those sites.
C9_SiteNamesOfDay ==
    aggPc = "done" =>
        \A k \in 1..Len(Days) :
            /\ { Days[k].windFarms[j] : j \in 1..Len(Days[k].windFarms) }
                  = { windFarms[s].name : s \in SitesOn(Days[k].date) }
            /\ Days[k].windFarmCount = Cardinality(SitesOn(Days[k].date))

(************** WindAnalysisService: the three distributions ***************)
\* moment(ts).hour()
HourOf(ts) == ts % 24

\* a / b kept exact
Ratio(a, b) == [num |-> a, den |-> b]

Zero == [num |-> 0, den |-> 1]

\* the JavaScript remainder a % b: its sign is the sign of a
JsRem(a, b) == IF a >= 0 THEN a % b ELSE 0 - ((0 - a) % b)

directionNames ==
    <<"N", "NNE", "NE", "ENE", "E", "ESE", "SE", "SSE",
      "S", "SSW", "SW", "WSW", "W", "WNW", "NW", "NNW">>

\* Math.round(degrees / 22.5) for a direction in quarter degrees: the nearest
\* integer, a half rounded up
RoundSector(quarterDegrees) == (quarterDegrees + 45) \div 90

\* directions[Math.round(degrees / 22.5) % 16]
WAS_getWindDirection(quarterDegrees) ==
    LET index == JsRem(RoundSector(quarterDegrees), 16)
    IN  IF index \in 0..15 THEN directionNames[index + 1] ELSE Undefined

EmptyHour ==
    [count |-> 0, strongWindCount |-> 0, extremeWindCount |-> 0,
     totalWindSpeed |-> 0, totalWindSpeed100m |-> 0,
     maxWindSpeed |-> 0, maxWindSpeed100m |-> 0]

EmptyDay == EmptyHour @@ [minWindSpeed |-> Infinity]

EmptyDirection ==
    [count |-> 0, totalSpeed |-> 0, totalSpeed100m |-> 0,
     strongWindCount |-> 0, extremeWindCount |-> 0]

\* the updates one reading makes to its hourly or daily bucket
AddToBucket(b, reading, strongTh) ==
    [b EXCEPT
        !.count = @ + 1,
        !.totalWindSpeed = @ + reading.windSpeedKmh,
        !.totalWindSpeed100m = @ + reading.windSpeed100mKmh,
        !.maxWindSpeed = Max2(@, reading.windSpeedKmh),
        !.maxWindSpeed100m = Max2(@, reading.windSpeed100mKmh),
        !.strongWindCount =
            IF reading.windSpeedKmh >= strongTh THEN @ + 1 ELSE @,
        !.extremeWindCount =
            IF reading.windSpeedKmh >= extremeWindThreshold THEN @ + 1 ELSE @]

RECURSIVE WAS_HourlyFold(_, _, _, _)
\* data.forEach of calculateHourlyDistribution, from reading i on
WAS_HourlyFold(d, i, hourlyStats, strongTh) ==
    IF i > Len(d) THEN hourlyStats
    ELSE LET hour == HourOf(d[i].timestamp)
         IN  WAS_HourlyFold(d, i + 1,
                 [hourlyStats EXCEPT ![hour] = AddToBucket(@, d[i], strongTh)],
                 strongTh)

\* the averages and percentages of a bucket; 0 for a bucket without readings
HourAverages(b) ==
    b @@ [avgWindSpeed |->
             IF b.count > 0 THEN Ratio(b.totalWindSpeed, b.count) ELSE Zero,
          avgWindSpeed100m |->
             IF b.count > 0 THEN Ratio(b.totalWindSpeed100m, b.count) ELSE Zero,
          strongWindPercentage |->
             IF b.count > 0 THEN Ratio(b.strongWindCount * 100, b.count) ELSE Zero,
          extremeWindPercentage |->
             IF b.count > 0 THEN Ratio(b.extremeWindCount * 100, b.count) ELSE Zero]

WAS_calculateHourlyDistribution(d, strongTh) ==
    LET filled == WAS_HourlyFold(d, 1, [hour \in 0..23 |-> EmptyHour], strongTh)
    IN  [hour \in 0..23 |-> HourAverages(filled[hour])]

MutWAS_DayBucket(dailyStats, day) == EmptyDay
\* if (!dailyStats[day]) dailyStats[day] = {...}; const stats = dailyStats[day]
WAS_DayBucket(dailyStats, day) ==
    IF day \in DOMAIN dailyStats THEN dailyStats[day] ELSE EmptyDay

RECURSIVE WAS_DailyFold(_, _, _, _)
WAS_DailyFold(d, i, dailyStats, strongTh) ==
    IF i > Len(d) THEN dailyStats
    ELSE LET day == DateOf(d[i].timestamp)
             bucket == AddToBucket(WAS_DayBucket(dailyStats, day), d[i], strongTh)
             updated ==
                 [bucket EXCEPT
                     !.minWindSpeed =
                         IF d[i].windSpeedKmh <= @ THEN d[i].windSpeedKmh ELSE @]
         IN  WAS_DailyFold(d, i + 1,
                 [x \in DOMAIN dailyStats \cup {day} |->
                     IF x = day THEN updated ELSE dailyStats[x]],
                 strongTh)

DayAverages(b) ==
    [b EXCEPT !.minWindSpeed = IF @ = Infinity THEN 0 ELSE @]
        @@ [avgWindSpeed |-> Ratio(b.totalWindSpeed, b.count),
            avgWindSpeed100m |-> Ratio(b.totalWindSpeed100m, b.count),
            strongWindPercentage |-> Ratio(b.strongWindCount * 100, b.count),
            extremeWindPercentage |-> Ratio(b.extremeWindCount * 100, b.count)]

WAS_calculateDailyDistribution(d, strongTh) ==
    LET filled == WAS_DailyFold(d, 1, <<>>, strongTh)
    IN  [day \in DOMAIN filled |-> DayAverages(filled[day])]

AddToDirection(b, reading, strongTh) ==
    [b EXCEPT
        !.count = @ + 1,
        !.totalSpeed = @ + reading.windSpeedKmh,
        !.totalSpeed100m = @ + reading.windSpeed100mKmh,
        !.strongWindCount =
            IF reading.windSpeedKmh >= strongTh THEN @ + 1 ELSE @,
        !.extremeWindCount =
            IF reading.windSpeedKmh >= extremeWindThreshold THEN @ + 1 ELSE @]

\* an exception of the given kind leaves the function
Thrown(kind) == [thrown |-> kind]

IsThrown(v) == "thrown" \in DOMAIN v

RECURSIVE WAS_RoseFold(_, _, _, _)
\* directions[direction].count++ is a TypeError when direction is undefined
WAS_RoseFold(d, i, directions, strongTh) ==
    IF i > Len(d) THEN directions
    ELSE LET direction == WAS_getWindDirection(d[i].windDirection)
         IN  IF direction \notin DOMAIN directions THEN Thrown("TypeError")
             ELSE WAS_RoseFold(d, i + 1,
                     [directions EXCEPT
                         ![direction] = AddToDirection(@, d[i], strongTh)],
                     strongTh)

DirectionAverages(b) ==
    b @@ [avgSpeed |->
             IF b.count > 0 THEN Ratio(b.totalSpeed, b.count) ELSE Zero,
          avgSpeed100m |->
             IF b.count > 0 THEN Ratio(b.totalSpeed100m, b.count) ELSE Zero,
          strongWindPercentage |->
             IF b.count > 0 THEN Ratio(b.strongWindCount * 100, b.count) ELSE Zero,
          extremeWindPercentage |->
             IF b.count > 0 THEN Ratio(b.extremeWindCount * 100, b.count) ELSE Zero]

DirectionSet == { directionNames[k] : k \in 1..Len(directionNames) }

WAS_calculateWindRose(d, strongTh) ==
    LET filled == WAS_RoseFold(d, 1, [dir \in DirectionSet |-> EmptyDirection],
                               strongTh)
    IN  IF IsThrown(filled) THEN filled
        ELSE [dir \in DirectionSet |-> DirectionAverages(filled[dir])]

\* series for the distributions: the 100 m speed equals the 10 m speed
ExtendStatSeries(S) ==
    { Append(s, Reading(IF s = <<>> THEN h0 ELSE s[Len(s)].timestamp + g,
                        sp, sp, dir)) :
        s \in S, h0 \in FirstHours, g \in DayGapHours, sp \in StatSpeeds,
        dir \in Directions }

RECURSIVE StatSeriesUpTo(_)
StatSeriesUpTo(n) ==
    IF n = 0 THEN {<<>>}
    ELSE LET prev == StatSeriesUpTo(n - 1)
         IN  prev \cup ExtendStatSeries(prev)

\* windAnalysisService.calculateHourlyDistribution(data)
RunHourly ==
    /\ statsOp = "none"
    /\ statsOp' = "hourly"
    /\ stats' = WAS_calculateHourlyDistribution(data, threshold)
    /\ UNCHANGED <<srvVars, detVars, aggVars, args>>

\* windAnalysisService.calculateDailyDistribution(data)
RunDaily ==
    /\ statsOp = "none"
    /\ statsOp' = "daily"
    /\ stats' = WAS_calculateDailyDistribution(data, threshold)
    /\ UNCHANGED <<srvVars, detVars, aggVars, args>>

\* windAnalysisService.calculateWindRose(data)
RunWindRose ==
    /\ statsOp = "none"
    /\ statsOp' = "rose"
    /\ stats' = WAS_calculateWindRose(data, threshold)
    /\ UNCHANGED <<srvVars, detVars, aggVars, args>>

InitStats ==
    /\ data \in StatSeriesUpTo(MaxLen)
    /\ threshold = strongWindThreshold
    /\ minDur = minimumDurationHours
    /\ detector = "none"
    /\ periods = <<>>
    /\ AggIdle
    /\ StatsIdle

NextStats == RunHourly \/ RunDaily \/ RunWindRose

SpecStats == InitStats /\ [][NextStats]_vars

(*********************** properties of the distributions *******************)
RECURSIVE SumCounts(_, _)
\* the sum of count over the buckets of f with keys in S
SumCounts(f, S) ==
    IF S = {} THEN 0
    ELSE LET x == CHOOSE y \in S : TRUE
         IN  f[x].count + SumCounts(f, S \ {x})

QuarterDegrees == 0..1440

MutMLA_RoundSector(quarterDegrees) == quarterDegrees \div 90
\* Math.round(degrees / 22.5) in MultiLocationAnalysisService.getWindDirection
MLA_RoundSector(quarterDegrees) == (quarterDegrees + 45) \div 90

\* MultiLocationAnalysisService.getWindDirection
MLA_getWindDirection(quarterDegrees) ==
    LET index == JsRem(MLA_RoundSector(quarterDegrees), 16)
    IN  IF index \in 0..15 THEN directionNames[index + 1] ELSE Undefined

\* windAnalysisService.getWindDirection(degrees)
RunWASDirection ==
    /\ statsOp = "none"
    /\ statsOp' = "WAS.getWindDirection"
    /\ stats' = WAS_getWindDirection(args.degrees)
    /\ UNCHANGED <<srvVars, detVars, aggVars, args>>

\* multiLocationAnalysisService.getWindDirection(degrees)
RunMLADirection ==
    /\ statsOp = "none"
    /\ statsOp' = "MLA.getWindDirection"
    /\ stats' = MLA_getWindDirection(args.degrees)
    /\ UNCHANGED <<srvVars, detVars, aggVars, args>>

InitDir ==
    /\ DetIdle
    /\ AggIdle
    /\ statsOp = "none"
    /\ stats = Null
    /\ args \in [degrees : QuarterDegrees]

NextDir == RunWASDirection \/ RunMLADirection

SpecDir == InitDir /\ [][NextDir]_vars

DirectionCalls == {"WAS.getWindDirection", "MLA.getWindDirection"}

\* the integers nearest to q / 90, a half counted upwards only
NearestSectors(q) == { k \in 0..16 : 90 * k - 45 <= q /\ q < 90 * k + 45 }

\* C11: on [0, 360] getWindDirection returns exactly one of the 16 compass
\* names, the one at index round(d / 22.5) mod 16; 0, 360 and every direction
\* from 348.75 degrees on give "N".
C11_DirectionTotal ==
    statsOp \in DirectionCalls =>
        /\ stats \in DirectionSet
        /\ Cardinality(NearestSectors(args.degrees)) = 1
        /\ \A k \in NearestSectors(args.degrees) :
               stats = directionNames[(k % 16) + 1]
        /\ (args.degrees = 0 \/ args.degrees >= 1395) => stats = "N"

C11_Witness ==
    /\ statsOp = "MLA.getWindDirection"
    /\ args.degrees = 1395
    /\ stats = "N"

(***************** readings outside the documented ranges (C12) ************)
RangeDirections == {-90, 720, 1530}   \* -22.5, 180 and 382.5 degrees
RangeSpeeds == {-5, 50}               \* a negative speed and a usual one

EmptyMLADirection == [count |-> 0, totalSpeed |-> 0]

RECURSIVE MLA_RoseFold(_, _, _)
\* data.forEach of MultiLocationAnalysisService.calculateWindRose
MLA_RoseFold(d, i, directions) ==
    IF i > Len(d) THEN directions
    ELSE LET direction == MLA_getWindDirection(d[i].windDirection)
         IN  IF direction \notin DOMAIN directions THEN Thrown("TypeError")
             ELSE MLA_RoseFold(d, i + 1,
                     [directions EXCEPT
                         ![direction] =
                             [@ EXCEPT !.count = @ + 1,
                                       !.totalSpeed = @ + d[i].windSpeedKmh]])

MLA_calculateWindRose(d) ==
    LET filled == MLA_RoseFold(d, 1, [dir \in DirectionSet |-> EmptyMLADirection])
    IN  IF IsThrown(filled) THEN filled
        ELSE [dir \in DirectionSet |->
                 filled[dir] @@
                     [avgSpeed |->
                         IF filled[dir].count > 0
                         THEN Ratio(filled[dir].totalSpeed, filled[dir].count)
                         ELSE Zero]]

ExtendRangeSeries(S) ==
    { Append(s, Reading(Len(s), sp, sp, dir)) :
        s \in S, sp \in RangeSpeeds, dir \in RangeDirections }

RECURSIVE RangeSeriesUpTo(_)
RangeSeriesUpTo(n) ==
    IF n = 0 THEN {<<>>}
    ELSE LET prev == RangeSeriesUpTo(n - 1)
         IN  prev \cup ExtendRangeSeries(prev)

\* multiLocationAnalysisService.calculateWindRose(data)
RunMLAWindRose ==
    /\ statsOp = "none"
    /\ statsOp' = "MLA.rose"
    /\ stats' = MLA_calculateWindRose(data)
    /\ UNCHANGED <<srvVars, detVars, aggVars, args>>

InitRange ==
    /\ data \in RangeSeriesUpTo(MaxLen)
    /\ threshold = strongWindThreshold
    /\ minDur = minimumDurationHours
    /\ detector = "none"
    /\ periods = <<>>
    /\ AggIdle
    /\ StatsIdle

NextRange == RunWindRose \/ RunMLAWindRose

SpecRange == InitRange /\ [][NextRange]_vars

\* C12: a reading with a speed or a direction outside its documented range
\* never makes calculateWindRose fail: the call returns a result in which
\* every reading is counted in one of the 16 buckets.
C12_OutOfRangeCounted ==
    statsOp \in {"rose", "MLA.rose"} =>
        /\ ~IsThrown(stats)
        /\ SumCounts(stats, DirectionSet) = Len(data)

(******************* exact arithmetic on the fractions **********************)
\* a fraction with denominator 0 stands for NaN (0 / 0) or for Infinity
RatOfInt(n) == [num |-> n, den |-> 1]

Abs(n) == IF n < 0 THEN 0 - n ELSE n

RECURSIVE GCD(_, _)
GCD(a, b) == IF b = 0 THEN a ELSE GCD(b, a % b)

\* the same number in lowest terms (the model's integers are 32 bits wide)
Lowest(num, den) ==
    LET g == GCD(Abs(num), Abs(den))
    IN  IF g = 0 THEN [num |-> num, den |-> den]
        ELSE [num |-> num \div g, den |-> den \div g]

RatAdd(a, b) == Lowest(a.num * b.den + b.num * a.den, a.den * b.den)

RatSub(a, b) == Lowest(a.num * b.den - b.num * a.den, a.den * b.den)

RatMul(a, b) == Lowest(a.num * b.num, a.den * b.den)

RatDivInt(a, n) == Lowest(a.num, a.den * n)

\* 0 / 0
IsNaN(a) == a.den = 0 /\ a.num = 0

\* a < b, a > b and a = b as numbers; every comparison with NaN is false, and
\* x / 0 with x > 0 is Infinity, above every number
RatLess(a, b) == ~IsNaN(a) /\ ~IsNaN(b) /\ a.num * b.den < b.num * a.den

RatGreater(a, b) == RatLess(b, a)

RatEq(a, b) == ~IsNaN(a) /\ ~IsNaN(b) /\ a.num * b.den = b.num * a.den

\* a / b for non-negative a and b
RatDiv(a, b) == Lowest(a.num * b.den, a.den * b.num)

RECURSIVE RatSum(_)
\* values.reduce((sum, v) => sum + v, 0)
RatSum(values) ==
    IF values = <<>> THEN Zero
    ELSE RatAdd(RatSum(SubSeq(values, 1, Len(values) - 1)), values[Len(values)])

(************** MultiLocationAnalysisService.analyzeStrongWindEvent ********)
\* getWindDataForPeriod: the formatted series, or [] when anything throws
MLA_getWindDataForPeriod(resp) == IF resp.ok THEN resp.hourly ELSE <<>>

RECURSIVE MLA_HourlyFold(_, _, _)
MLA_HourlyFold(d, i, hourlyStats) ==
    IF i > Len(d) THEN hourlyStats
    ELSE MLA_HourlyFold(d, i + 1,
             [hourlyStats EXCEPT ![HourOf(d[i].timestamp)] =
                 [@ EXCEPT !.count = @ + 1,
                           !.totalWindSpeed = @ + d[i].windSpeedKmh,
                           !.maxWindSpeed = Max2(@, d[i].windSpeedKmh)]])

MLA_calculateHourlyDistribution(d) ==
    LET filled == MLA_HourlyFold(d, 1,
                      [hour \in 0..23 |->
                          [count |-> 0, totalWindSpeed |-> 0, maxWindSpeed |-> 0]])
    IN  [hour \in 0..23 |->
            filled[hour] @@
                [avgWindSpeed |->
                    IF filled[hour].count > 0
                    THEN Ratio(filled[hour].totalWindSpeed, filled[hour].count)
                    ELSE Zero]]

\* !result.error
HasError(result) == "error" \in DOMAIN result

\* the entry pushed for a site without data or with a failed analysis
MLA_ErrorResult(farm, message) ==
    [farm |-> farm,
     error |-> message,
     hasStrongWinds |-> FALSE,
     maxWindSpeed |-> 0,
     averageWindSpeed |-> Zero]

\* the value analyzeWindFarmDuringEvent resolves to, or what it throws
MLA_analyzeWindFarmDuringEvent(farm, resp, th) ==
    LET windData == MLA_getWindDataForPeriod(resp)
        strongWindReadings ==
            Len(SelectSeq(windData, LAMBDA r : r.windSpeedKmh >= th))
        windRose == MLA_calculateWindRose(windData)
    IN  IF Len(windData) = 0
        THEN MLA_ErrorResult(farm, "No wind data available for this period")
        ELSE IF IsThrown(windRose) THEN windRose
        ELSE [farm |-> farm,
              period |-> [threshold |-> th],
              totalReadings |-> Len(windData),
              maxWindSpeed |-> MaxOf(windData, "windSpeedKmh"),
              maxWindSpeed100m |-> MaxOf(windData, "windSpeed100mKmh"),
              averageWindSpeed |-> Mean(windData, "windSpeedKmh"),
              averageWindSpeed100m |-> Mean(windData, "windSpeed100mKmh"),
              strongWindReadings |-> strongWindReadings,
              strongWindPercentage |->
                  Ratio(strongWindReadings * 100, Len(windData)),
              hasStrongWinds |-> strongWindReadings > 0,
              strongWindPeriods |-> MLA_findStrongWindPeriods(windData, th),
              hourlyDistribution |-> MLA_calculateHourlyDistribution(windData),
              windRose |-> windRose]

\* the summary object before the loop
MLA_EmptySummary(th, farms) ==
    [threshold |-> th,
     totalFarms |-> Len(farms),
     farmsAnalyzed |-> 0,
     farmsWithStrongWinds |-> 0,
     maxWindSpeed |-> 0,
     maxWindSpeedLocation |-> Null,
     averageWindSpeeds |-> <<>>,
     windSpeedRanking |-> <<>>]

\* the updates of the summary after a site's analysis returned
MLA_UpdateSummary(es, farm, farmAnalysis) ==
    [es EXCEPT
        !.farmsAnalyzed = @ + 1,
        !.farmsWithStrongWinds =
            IF farmAnalysis.hasStrongWinds THEN @ + 1 ELSE @,
        !.maxWindSpeed =
            IF farmAnalysis.maxWindSpeed > es.maxWindSpeed
            THEN farmAnalysis.maxWindSpeed ELSE @,
        !.maxWindSpeedLocation =
            IF farmAnalysis.maxWindSpeed > es.maxWindSpeed
            THEN farm.name ELSE @,
        !.averageWindSpeeds =
            IF RatGreater(farmAnalysis.averageWindSpeed, Zero)
            THEN Append(@, [farmName |-> farm.name,
                            averageSpeed |-> farmAnalysis.averageWindSpeed,
                            region |-> farm.region])
            ELSE @]

\* position of x in a list ordered by maxWindSpeed, largest first: after the
\* entries that do not sort after it (Array.prototype.sort is stable)
MutMLA_RankPosition(acc, x) ==
    Cardinality({j \in 1..Len(acc) : acc[j].maxWindSpeed > x.maxWindSpeed})
MLA_RankPosition(acc, x) ==
    Cardinality({j \in 1..Len(acc) : acc[j].maxWindSpeed >= x.maxWindSpeed})

RECURSIVE MLA_SortByMax(_)
\* .sort((a, b) => b.maxWindSpeed - a.maxWindSpeed)
MLA_SortByMax(results) ==
    IF results = <<>> THEN <<>>
    ELSE LET acc == MLA_SortByMax(SubSeq(results, 1, Len(results) - 1))
             x == results[Len(results)]
             pos == MLA_RankPosition(acc, x)
         IN  SubSeq(acc, 1, pos) \o <<x>> \o SubSeq(acc, pos + 1, Len(acc))

MLA_windSpeedRanking(results) ==
    LET sorted == MLA_SortByMax(SelectSeq(results, LAMBDA r : ~HasError(r)))
    IN  [k \in 1..Len(sorted) |->
            [rank |-> k,
             farmName |-> sorted[k].farm.name,
             region |-> sorted[k].farm.region,
             maxWindSpeed |-> sorted[k].maxWindSpeed,
             averageWindSpeed |-> sorted[k].averageWindSpeed,
             capacity |-> sorted[k].farm.capacity]]

RECURSIVE SortAscending(_)
\* values.sort((a, b) => a - b)
SortAscending(values) ==
    IF values = <<>> THEN <<>>
    ELSE LET acc == SortAscending(SubSeq(values, 1, Len(values) - 1))
             x == values[Len(values)]
             pos == Cardinality({j \in 1..Len(acc) : ~RatLess(x, acc[j])})
         IN  SubSeq(acc, 1, pos) \o <<x>> \o SubSeq(acc, pos + 1, Len(acc))

\* Math.floor(sorted.length / 2), as a 0-based index
MLA_Middle(n) == n \div 2

MutMLA_IsEven(n) == FALSE
\* sorted.length % 2 === 0
MLA_IsEven(n) == n % 2 = 0

MLA_calculateMedian(values) ==
    IF Len(values) = 0 THEN Zero
    ELSE LET sorted == SortAscending(values)
             middle == MLA_Middle(Len(sorted))
         IN  IF MLA_IsEven(Len(sorted))
             THEN RatDivInt(RatAdd(sorted[middle], sorted[middle + 1]), 2)
             ELSE sorted[middle + 1]

\* the square of the standard deviation: Math.sqrt is left unevaluated
MLA_Variance(values) ==
    LET mean == RatDivInt(RatSum(values), Len(values))
        squaredDiffs ==
            [k \in 1..Len(values) |->
                RatMul(RatSub(values[k], mean), RatSub(values[k], mean))]
    IN  RatDivInt(RatSum(squaredDiffs), Len(values))

MLA_calculateStandardDeviation(values) ==
    IF Len(values) = 0 THEN [sqrt |-> Zero]
    ELSE [sqrt |-> MLA_Variance(values)]

\* validResults.map((r) => r.averageWindSpeed).filter((s) => s > 0)
MLA_ValidAverages(results) ==
    LET validResults == SelectSeq(results, LAMBDA r : ~HasError(r))
        speeds == [k \in 1..Len(validResults) |-> validResults[k].averageWindSpeed]
    IN  SelectSeq(speeds, LAMBDA s : RatGreater(s, Zero))

MLA_overallStats(es, results) ==
    LET averageWindSpeeds == MLA_ValidAverages(results)
    IN  [averageWindSpeedAcrossAllFarms |->
            IF Len(averageWindSpeeds) > 0
            THEN RatDivInt(RatSum(averageWindSpeeds), Len(averageWindSpeeds))
            ELSE Zero,
         medianWindSpeed |-> MLA_calculateMedian(averageWindSpeeds),
         standardDeviation |-> MLA_calculateStandardDeviation(averageWindSpeeds),
         farmsAboveThreshold |-> es.farmsWithStrongWinds,
         percentageFarmsAffected |->
            Ratio(es.farmsWithStrongWinds * 100, es.farmsAnalyzed)]

RECURSIVE MLA_RegionFold(_, _)
\* farmResults.forEach of analyzeRegionalImpact; the regions keep the order
\* in which they were first seen
MLA_RegionFold(results, regionalStats) ==
    IF results = <<>> THEN regionalStats
    ELSE LET result == results[1]
             region == result.farm.region
             known == \E k \in 1..Len(regionalStats) :
                          regionalStats[k].region = region
             withRegion ==
                 IF known THEN regionalStats
                 ELSE Append(regionalStats,
                             [region |-> region, farms |-> 0,
                              totalWindSpeed |-> Zero, maxWindSpeed |-> 0,
                              farmsWithStrongWinds |-> 0])
             updated ==
                 [k \in 1..Len(withRegion) |->
                     IF withRegion[k].region # region THEN withRegion[k]
                     ELSE [withRegion[k] EXCEPT
                              !.farms = @ + 1,
                              !.totalWindSpeed =
                                  RatAdd(@, result.averageWindSpeed),
                              !.maxWindSpeed = Max2(@, result.maxWindSpeed),
                              !.farmsWithStrongWinds =
                                  IF result.hasStrongWinds THEN @ + 1 ELSE @]]
         IN  IF HasError(result) THEN MLA_RegionFold(Tail(results), regionalStats)
             ELSE MLA_RegionFold(Tail(results), updated)

MLA_analyzeRegionalImpact(results) ==
    LET filled == MLA_RegionFold(results, <<>>)
    IN  [k \in 1..Len(filled) |->
            filled[k] @@
                [averageWindSpeed |->
                    RatDivInt(filled[k].totalWindSpeed, filled[k].farms),
                 percentageAffected |->
                    Ratio(filled[k].farmsWithStrongWinds * 100, filled[k].farms)]]

\* the four groups of generateEventRecommendations, in the order of the pushes
MLA_GridWide(es) ==
    IF RatGreater(es.overallStats.percentageFarmsAffected, RatOfInt(50))
    THEN <<[type |-> "warning", impact |-> "Grid-wide"]>>
    ELSE <<>>

MutMLA_Safety(es) ==
    IF es.maxWindSpeed >= 100
    THEN <<[type |-> "danger", impact |-> "Safety",
            location |-> es.maxWindSpeedLocation]>>
    ELSE <<>>
MLA_Safety(es) ==
    IF es.maxWindSpeed > 100
    THEN <<[type |-> "danger", impact |-> "Safety",
            location |-> es.maxWindSpeedLocation]>>
    ELSE <<>>

MLA_Regional(results) ==
    LET regionalStats == MLA_analyzeRegionalImpact(results)
        high == SelectSeq(regionalStats,
                    LAMBDA s : RatGreater(s.averageWindSpeed, RatOfInt(80)))
    IN  [k \in 1..Len(high) |->
            [type |-> "warning", impact |-> "Regional", region |-> high[k].region]]

MLA_Operational(es) ==
    LET ranking == es.windSpeedRanking
        topFarms == SubSeq(ranking, 1, IF Len(ranking) < 3 THEN Len(ranking) ELSE 3)
    IN  IF Len(topFarms) > 0
        THEN <<[type |-> "info", impact |-> "Operational",
                farms |-> [k \in 1..Len(topFarms) |-> topFarms[k].farmName]]>>
        ELSE <<>>

MLA_generateEventRecommendations(es, results) ==
    MLA_GridWide(es) \o MLA_Safety(es) \o MLA_Regional(results)
        \o MLA_Operational(es)

(**************** TimePeriodsAnalysisService.analyzeTimePeriods ************)
\* getWindDataForPeriod: the days of the window are requested and the answer
\* is filtered to the readings within [startTime, endTime]; [] on a failure
MutTPA_IsBetween(ts, startTime, endTime) == ts >= startTime /\ ts < endTime
\* readingMoment.isBetween(startMoment, endMoment, null, "[]")
TPA_IsBetween(ts, startTime, endTime) == ts >= startTime /\ ts <= endTime

TPA_getWindDataForPeriod(resp, startTime, endTime) ==
    IF ~resp.ok THEN <<>>
    ELSE LET allData ==
                 SelectSeq(resp.hourly,
                     LAMBDA r : /\ DateOf(r.timestamp) >= DateOf(startTime)
                                /\ DateOf(r.timestamp) <= DateOf(endTime))
         IN  SelectSeq(allData,
                 LAMBDA r : TPA_IsBetween(r.timestamp, startTime, endTime))

\* one pass of the loop over the windows: null, or the mean speed
TPA_AverageSpeed(resp, period) ==
    LET windData == TPA_getWindDataForPeriod(resp, period.start, period.end)
    IN  IF Len(windData) = 0 THEN Null ELSE Mean(windData, "windSpeedKmh")

TPA_analyzeWindFarmForTimePeriods(farm, resp, timePeriods) ==
    [name |-> farm.name,
     averageSpeeds |->
         [w \in 1..Len(timePeriods) |-> TPA_AverageSpeed(resp, timePeriods[w])]]

RECURSIVE Flatten(_)
Flatten(lists) ==
    IF lists = <<>> THEN <<>> ELSE lists[1] \o Flatten(Tail(lists))

RECURSIVE RatMaxOf(_)
RatMaxOf(values) ==
    IF Len(values) = 1 THEN values[1]
    ELSE LET rest == RatMaxOf(Tail(values))
         IN  IF RatLess(values[1], rest) THEN rest ELSE values[1]

RECURSIVE RatMinOf(_)
RatMinOf(values) ==
    IF Len(values) = 1 THEN values[1]
    ELSE LET rest == RatMinOf(Tail(values))
         IN  IF RatLess(rest, values[1]) THEN rest ELSE values[1]

TPA_generateSummary(results, timePeriods) ==
    LET validResults == SelectSeq(results, LAMBDA r : ~HasError(r))
        allAverageSpeeds ==
            Flatten([k \in 1..Len(validResults) |->
                        SelectSeq(validResults[k].averageSpeeds,
                                  LAMBDA s : s # Null)])
    IN  [totalFarms |-> Len(results),
         farmsWithData |-> Len(validResults),
         totalTimePeriods |-> Len(timePeriods),
         overallAverageWindSpeed |->
             IF Len(allAverageSpeeds) > 0
             THEN RatDivInt(RatSum(allAverageSpeeds), Len(allAverageSpeeds))
             ELSE Zero,
         maxAverageWindSpeed |->
             IF Len(allAverageSpeeds) > 0 THEN RatMaxOf(allAverageSpeeds) ELSE Zero,
         minAverageWindSpeed |->
             IF Len(allAverageSpeeds) > 0 THEN RatMinOf(allAverageSpeeds) ELSE Zero]

(********************** the three batch analyses ***************************)
\* an hourly series from midnight of day 0 out of <<10 m speed, 100 m speed,
\* direction>> triples
Hourly(triples) ==
    [h \in 1..Len(triples) |->
        Reading(h - 1, triples[h][1], triples[h][2], triples[h][3])]

\* twelve strong hours
LongStrong == [h \in 1..12 |-> <<70, 70, 0>>]

BatchSeries ==
    { <<>>,
      Hourly(<< <<100, 100, 0>> >>),
      Hourly(<< <<110, 110, 0>>, <<50, 50, 0>> >>),
      Hourly(<< <<50, 70, 0>>, <<50, 70, 0>> >>),
      Hourly(<< <<70, 50, 0>>, <<70, 50, 0>> >>),
      Hourly(<< <<0, 0, 0>> >>),
      Hourly(<< <<50, 50, -90>> >>),
      Hourly(LongStrong) }

\* answers of the archive API for one site: a series, or a failed request
BatchResponses ==
    { [ok |-> TRUE, hourly |-> s] : s \in BatchSeries } \cup {[ok |-> FALSE]}

Regions == {"North", "South"}

\* the regions of the loaded sites: one region, or two alternating ones
RegionMaps ==
    { [i \in 1..NumSites |-> "North"],
      [i \in 1..NumSites |-> IF i % 2 = 1 THEN "North" ELSE "South"] }

\* the window lists of a time-periods request
TimePeriodLists ==
    { << [start |-> 0, end |-> 1] >>,
      << [start |-> 1, end |-> 1], [start |-> 30, end |-> 40] >> }

\* a request for the strong wind event analysis arrives
EventBegin ==
    /\ aggPc = "idle"
    /\ aggPc' = "eventLoop"
    /\ aggIdx' = 1
    /\ analysisResults' = <<>>
    /\ eventSummary' = MLA_EmptySummary(threshold, windFarms)
    /\ UNCHANGED <<srvVars, detVars, fetchLog, statVars, windFarms, upstream, windFarmAnalysis,
                   nzStrongWindPeriods, aggResult, farmResults>>

MutMLA_SiteOutcome(farm, resp, th) ==
    [caught |-> FALSE, entry |-> MLA_analyzeWindFarmDuringEvent(farm, resp, th)]
\* the try / catch of the loop body: the entry it pushes, and whether the
\* catch clause produced it
MLA_SiteOutcome(farm, resp, th) ==
    LET farmAnalysis == MLA_analyzeWindFarmDuringEvent(farm, resp, th)
    IN  IF IsThrown(farmAnalysis)
        THEN [caught |-> TRUE, entry |-> MLA_ErrorResult(farm, farmAnalysis.thrown)]
        ELSE [caught |-> FALSE, entry |-> farmAnalysis]

\* one iteration of for (const farm of this.windFarms); an exception that
\* leaves the loop body is rethrown by the outer catch and ends the call
EventSite ==
    /\ aggPc = "eventLoop"
    /\ aggIdx <= Len(windFarms)
    /\ LET farm == windFarms[aggIdx]
           outcome == MLA_SiteOutcome(farm, upstream[aggIdx], threshold)
       IN  IF IsThrown(outcome.entry)
           THEN /\ aggPc' = "failed"
                /\ aggResult' = outcome.entry
                /\ UNCHANGED <<analysisResults, eventSummary, aggIdx>>
           ELSE /\ analysisResults' = Append(analysisResults, outcome.entry)
                /\ eventSummary' =
                      IF outcome.caught THEN eventSummary
                      ELSE MLA_UpdateSummary(eventSummary, farm, outcome.entry)
                /\ aggIdx' = aggIdx + 1
                /\ UNCHANGED <<aggPc, aggResult>>
    /\ fetchLog' = fetchLog \o MLA_Fetches(aggIdx)
    /\ UNCHANGED <<srvVars, detVars, statVars, windFarms, upstream,
                   windFarmAnalysis, nzStrongWindPeriods, farmResults>>

\* after the loop: ranking, overall statistics, recommendations, return
EventReturn ==
    /\ aggPc = "eventLoop"
    /\ aggIdx > Len(windFarms)
    /\ LET ranked ==
               [eventSummary EXCEPT
                   !.windSpeedRanking = MLA_windSpeedRanking(analysisResults)]
           summary ==
               ranked @@ [overallStats |-> MLA_overallStats(ranked, analysisResults)]
       IN  /\ eventSummary' = summary
           /\ aggResult' =
                 [eventSummary |-> summary,
                  farmResults |-> analysisResults,
                  recommendations |->
                      MLA_generateEventRecommendations(summary, analysisResults)]
    /\ aggPc' = "eventDone"
    /\ UNCHANGED <<srvVars, detVars, fetchLog, statVars, windFarms, upstream, aggIdx,
                   windFarmAnalysis, nzStrongWindPeriods, analysisResults,
                   farmResults>>

\* a request for the time periods analysis arrives
TimePeriodsBegin ==
    /\ aggPc = "idle"
    /\ "timePeriods" \in DOMAIN args
    /\ aggPc' = "periodsLoop"
    /\ aggIdx' = 1
    /\ farmResults' = <<>>
    /\ UNCHANGED <<srvVars, detVars, fetchLog, statVars, windFarms, upstream, windFarmAnalysis,
                   nzStrongWindPeriods, aggResult, analysisResults, eventSummary>>

\* one iteration of for (const farm of this.windFarms)
TimePeriodsSite ==
    /\ aggPc = "periodsLoop"
    /\ aggIdx <= Len(windFarms)
    /\ farmResults' =
          Append(farmResults,
                 TPA_analyzeWindFarmForTimePeriods(windFarms[aggIdx],
                     upstream[aggIdx], args.timePeriods))
    /\ aggIdx' = aggIdx + 1
    /\ fetchLog' = fetchLog \o TPA_Fetches(aggIdx, args.timePeriods)
    /\ UNCHANGED <<srvVars, detVars, statVars, windFarms, upstream, aggPc,
                   windFarmAnalysis, nzStrongWindPeriods, aggResult,
                   analysisResults, eventSummary>>

TimePeriodsReturn ==
    /\ aggPc = "periodsLoop"
    /\ aggIdx > Len(windFarms)
    /\ aggResult' =
          [farms |-> farmResults,
           timePeriods |-> args.timePeriods,
           summary |-> TPA_generateSummary(farmResults, args.timePeriods)]
    /\ aggPc' = "periodsDone"
    /\ UNCHANGED <<srvVars, detVars, fetchLog, statVars, windFarms, upstream, aggIdx,
                   windFarmAnalysis, nzStrongWindPeriods, analysisResults,
                   eventSummary, farmResults>>

InitBatch ==
    /\ DetIdle
    /\ BatchIdle
    /\ statsOp = "none"
    /\ stats = Null
    /\ args \in { [timePeriods |-> tp] : tp \in TimePeriodLists }
    /\ windFarms \in
          { [i \in 1..NumSites |-> [Site(i) EXCEPT !.region = rm[i]]] :
              rm \in RegionMaps }
    /\ upstream \in [1..NumSites -> BatchResponses]
    /\ aggPc = "idle"
    /\ aggIdx = 0
    /\ fetchLog = <<>>
    /\ ServerIdle
    /\ windFarmAnalysis = <<>>
    /\ nzStrongWindPeriods = <<>>
    /\ aggResult = Null

NextBatch ==
    \/ AnalyzeBegin \/ AnalyzeSite \/ AnalyzeReturn
    \/ EventBegin \/ EventSite \/ EventReturn
    \/ TimePeriodsBegin \/ TimePeriodsSite \/ TimePeriodsReturn

SpecBatch == InitBatch /\ [][NextBatch]_vars

(******************* properties of the batch analyses **********************)
\* the request to the reading source failed for site i
FetchFailed(i) == ~upstream[i].ok

\* the request succeeded and the answer holds no reading
FetchedEmpty(i) == upstream[i].ok /\ upstream[i].hourly = <<>>

\* the event analysis of site i raises an exception
AnalysisFailed(i) ==
    /\ upstream[i].ok
    /\ upstream[i].hourly # <<>>
    /\ \E k \in 1..Len(upstream[i].hourly) :
           upstream[i].hourly[k].windDirection < -45

\* the periods the strong wind periods service detects at site i
DetectedAt(i) ==
    IF upstream[i].ok
    THEN SWP_findStrongWindPeriods(upstream[i].hourly, windFarms[i],
                                   threshold, minDur)
    ELSE <<>>

\* the readings of site i inside a window
InWindow(i, period) ==
    IF upstream[i].ok
    THEN SelectSeq(upstream[i].hourly,
             LAMBDA r : r.timestamp >= period.start /\ r.timestamp <= period.end)
    ELSE <<>>

\* C13: a failure while fetching or analysing one site never leaves the batch
\* call and never stops the loop: every site is processed in list order and
\* the returned result holds the data of the sites that did not fail.
C13_FailureStaysInsideBatch ==
    /\ aggPc # "failed"
    /\ aggPc = "eventLoop" => Len(analysisResults) = aggIdx - 1
    /\ aggPc = "periodsLoop" => Len(farmResults) = aggIdx - 1
    /\ aggPc = "eventDone" =>
          /\ Len(aggResult.farmResults) = Len(windFarms)
          /\ \A i \in 1..Len(windFarms) :
                /\ aggResult.farmResults[i].farm = windFarms[i]
                /\ (~FetchFailed(i) /\ ~FetchedEmpty(i) /\ ~AnalysisFailed(i)) =>
                      /\ ~HasError(aggResult.farmResults[i])
                      /\ aggResult.farmResults[i].totalReadings =
                             Len(upstream[i].hourly)
    /\ aggPc = "done" =>
          \A i \in 1..Len(windFarms) :
              DetectedAt(i) # <<>> =>
                  \E k \in 1..Len(aggResult.windFarmAnalysis) :
                      /\ aggResult.windFarmAnalysis[k].windFarm = windFarms[i]
                      /\ aggResult.windFarmAnalysis[k].periods = DetectedAt(i)
    /\ aggPc = "periodsDone" =>
          /\ Len(aggResult.farms) = Len(windFarms)
          /\ \A i \in 1..Len(windFarms) :
                /\ aggResult.farms[i].name = windFarms[i].name
                /\ \A w \in 1..Len(args.timePeriods) :
                       InWindow(i, args.timePeriods[w]) # <<>> =>
                           aggResult.farms[i].averageSpeeds[w] # Null

C13_Witness ==
    /\ aggPc = "eventDone"
    /\ AnalysisFailed(1)
    /\ aggResult.farmResults[1].error = "TypeError"
    /\ ~HasError(aggResult.farmResults[NumSites])
    /\ aggResult.farmResults[NumSites].totalReadings = 12
\* C14: every site whose fetch or detection failed is recorded in the
\* returned result as an entry naming the site and carrying an error, in all
\* three batch analyses.
C14_FailedSiteRecorded ==
    /\ aggPc = "eventDone" =>
          \A i \in 1..Len(windFarms) :
              (FetchFailed(i) \/ AnalysisFailed(i)) =>
                  /\ aggResult.farmResults[i].farm = windFarms[i]
                  /\ HasError(aggResult.farmResults[i])
    /\ aggPc = "done" =>
          \A i \in 1..Len(windFarms) :
              FetchFailed(i) =>
                  \E k \in 1..Len(aggResult.windFarmAnalysis) :
                      /\ aggResult.windFarmAnalysis[k].windFarm = windFarms[i]
                      /\ HasError(aggResult.windFarmAnalysis[k])
    /\ aggPc = "periodsDone" =>
          \A i \in 1..Len(windFarms) :
              FetchFailed(i) =>
                  /\ aggResult.farms[i].name = windFarms[i].name
                  /\ HasError(aggResult.farms[i])

\* what the result says about a site, the site's identity left out
EventReport(i) == [aggResult.farmResults[i] EXCEPT !.farm = Null]

PeriodsReport(i) == [aggResult.farms[i] EXCEPT !.name = Undefined]

\* C15: a site whose fetch failed is reported differently from a site whose
\* fetch succeeded with an empty reading sequence.
C15_FetchErrorDistinctFromNoData ==
    /\ aggPc = "eventDone" =>
          \A i, j \in 1..Len(windFarms) :
              (FetchFailed(i) /\ FetchedEmpty(j)) =>
                  EventReport(i) # EventReport(j)
    /\ aggPc = "periodsDone" =>
          \A i, j \in 1..Len(windFarms) :
              (FetchFailed(i) /\ FetchedEmpty(j)) =>
                  PeriodsReport(i) # PeriodsReport(j)

\* every reading of the period is strong at hub height
StrongAtHub(period) ==
    \A k \in 1..Len(period.readings) :
        period.readings[k].windSpeed100mKmh >= threshold

\* C16: the per-site detections of analyzeStrongWindPeriods and of
\* analyzeStrongWindEvent test the 100 m speed and drop the periods shorter
\* than the minimum duration (6 hours).
C16_HubHeightAndMinimumDuration ==
    /\ aggPc = "done" =>
          \A k \in 1..Len(aggResult.nzStrongWindPeriods) :
              /\ StrongAtHub(aggResult.nzStrongWindPeriods[k])
              /\ aggResult.nzStrongWindPeriods[k].durationHours
                     >= minimumDurationHours
    /\ aggPc = "eventDone" =>
          \A i \in 1..Len(windFarms) :
              ~HasError(aggResult.farmResults[i]) =>
                  \A k \in 1..Len(aggResult.farmResults[i].strongWindPeriods) :
                      LET period == aggResult.farmResults[i].strongWindPeriods[k]
                      IN  /\ StrongAtHub(period)
                          /\ DiffHours(period.end, period.start)
                                 >= minimumDurationHours
\* the sites of the event result that carry no error, in list order
ValidSites == { i \in 1..Len(windFarms) : ~HasError(aggResult.farmResults[i]) }

\* the position in the site list of the site with this name
SiteIndex(name) == CHOOSE i \in 1..Len(windFarms) : windFarms[i].name = name

\* C17: windSpeedRanking holds exactly the sites without error, by
\* maxWindSpeed non-increasing, ties in site-list order, ranks 1, 2, ..., n.
C17_RankingOrdered ==
    aggPc = "eventDone" =>
        LET ranking == aggResult.eventSummary.windSpeedRanking
        IN  /\ Len(ranking) = Cardinality(ValidSites)
            /\ { ranking[k].farmName : k \in 1..Len(ranking) }
                   = { windFarms[i].name : i \in ValidSites }
            /\ \A k \in 1..Len(ranking) :
                   /\ ranking[k].rank = k
                   /\ ranking[k].maxWindSpeed =
                          aggResult.farmResults[SiteIndex(ranking[k].farmName)]
                              .maxWindSpeed
            /\ \A k, l \in 1..Len(ranking) :
                   k < l =>
                       \/ ranking[k].maxWindSpeed > ranking[l].maxWindSpeed
                       \/ /\ ranking[k].maxWindSpeed = ranking[l].maxWindSpeed
                          /\ SiteIndex(ranking[k].farmName)
                                 < SiteIndex(ranking[l].farmName)

C17_Witness ==
    /\ aggPc = "eventDone"
    /\ Len(aggResult.eventSummary.windSpeedRanking) = 2
    /\ aggResult.eventSummary.windSpeedRanking[1].maxWindSpeed = 100
    /\ aggResult.eventSummary.windSpeedRanking[2].maxWindSpeed = 100
    /\ aggResult.eventSummary.windSpeedRanking[1].farmName = windFarms[1].name

(************************** calculateMedian (C18) **************************)
RECURSIVE ListsUpTo(_, _)
\* the lists of at most n elements of S
ListsUpTo(S, n) ==
    IF n = 0 THEN {<<>>}
    ELSE LET prev == ListsUpTo(S, n - 1)
         IN  prev \cup { Append(l, x) : l \in prev, x \in S }

MedianArgs ==
    { [values |-> [k \in 1..Len(l) |-> RatOfInt(l[k])]] :
        l \in ListsUpTo(MedianValues, MedianLen) }

\* multiLocationAnalysisService.calculateMedian(values)
RunMedian ==
    /\ statsOp = "none"
    /\ "values" \in DOMAIN args
    /\ statsOp' = "calculateMedian"
    /\ stats' = MLA_calculateMedian(args.values)
    /\ UNCHANGED <<srvVars, detVars, aggVars, args>>

InitMedianCall ==
    /\ DetIdle
    /\ AggIdle
    /\ statsOp = "none"
    /\ stats = Null
    /\ args \in MedianArgs

InitMedian == InitMedianCall \/ InitBatch

NextMedian == RunMedian \/ EventBegin \/ EventSite \/ EventReturn

SpecMedian == InitMedian /\ [][NextMedian]_vars

\* an element of the list with fewer than k elements below it and at least k
\* elements not above it: the k-th of the list in ascending order
KthSmallest(values, k) ==
    CHOOSE v \in { values[j] : j \in 1..Len(values) } :
        /\ Cardinality({ j \in 1..Len(values) : RatLess(values[j], v) }) < k
        /\ Cardinality({ j \in 1..Len(values) : ~RatLess(v, values[j]) }) >= k

\* m is the median of the non-empty list
IsMedianOf(m, values) ==
    LET n == Len(values)
    IN  IF n % 2 = 1 THEN RatEq(m, KthSmallest(values, (n + 1) \div 2))
        ELSE RatEq(RatAdd(m, m),
                   RatAdd(KthSmallest(values, n \div 2),
                          KthSmallest(values, n \div 2 + 1)))

Ints(l) == [k \in 1..Len(l) |-> RatOfInt(l[k])]

\* the non-zero averages of the sites without error, in list order
NonZeroAverages ==
    LET sites == { i \in ValidSites :
                     aggResult.farmResults[i].averageWindSpeed.num # 0 }
        nth(k) == CHOOSE i \in sites :
                      Cardinality({ j \in sites : j < i }) = k - 1
    IN  [k \in 1..Cardinality(sites) |->
            aggResult.farmResults[nth(k)].averageWindSpeed]

\* C18: calculateMedian gives the middle element of the sorted list for an odd
\* count and the mean of the two middle elements for an even count, whatever
\* the input order ([10,20,30] -> 20, [10,20,30,40] -> 25), and 0 for the
\* empty list; the cross-site median is taken over the sites with a non-zero
\* average speed and no error.
C18_Median ==
    /\ statsOp = "calculateMedian" =>
          /\ args.values = <<>> => RatEq(stats, Zero)
          /\ args.values # <<>> => IsMedianOf(stats, args.values)
          /\ args.values \in { Ints(<<10, 20, 30>>), Ints(<<30, 10, 20>>) }
                 => RatEq(stats, RatOfInt(20))
          /\ args.values \in { Ints(<<10, 20, 30, 40>>), Ints(<<40, 10, 30, 20>>) }
                 => RatEq(stats, RatOfInt(25))
    /\ aggPc = "eventDone" =>
          LET median == aggResult.eventSummary.overallStats.medianWindSpeed
          IN  IF NonZeroAverages = <<>> THEN RatEq(median, Zero)
              ELSE IsMedianOf(median, NonZeroAverages)

C18_Witness ==
    /\ statsOp = "calculateMedian"
    /\ args.values = Ints(<<40, 10, 30, 20>>)
    /\ RatEq(stats, RatOfInt(25))

(************* WindAnalysisService.generateRecommendations (C19) ***********)
\* a reading that also carries the gust speed
GustReading(ts, ref, hub, gust) ==
    Reading(ts, ref, hub, 0) @@ [windGustsKmh |-> gust]

\* Math.max(...data.map(f)): -Infinity for an empty list
WAS_MaxOf(d, f) == IF d = <<>> THEN 0 - Infinity ELSE MaxOf(d, f)

\* data.filter((d) => d[f] >= bound).length
CountAtLeast(d, f, bound) == Len(SelectSeq(d, LAMBDA r : r[f] >= bound))

WAS_calculateSummary(d, strongTh) ==
    LET totalReadings == Len(d)
        strongWindReadings == CountAtLeast(d, "windSpeedKmh", strongTh)
        extremeWindReadings ==
            CountAtLeast(d, "windSpeedKmh", extremeWindThreshold)
    IN  [totalReadings |-> totalReadings,
         strongWindReadings |-> strongWindReadings,
         strongWindPercentage |-> Ratio(strongWindReadings * 100, totalReadings),
         extremeWindReadings |-> extremeWindReadings,
         extremeWindPercentage |-> Ratio(extremeWindReadings * 100, totalReadings),
         maxWindSpeed |-> WAS_MaxOf(d, "windSpeedKmh"),
         maxWindSpeed100m |-> WAS_MaxOf(d, "windSpeed100mKmh"),
         maxWindGusts |-> WAS_MaxOf(d, "windGustsKmh"),
         averageWindSpeed |-> Ratio(SumOf(d, "windSpeedKmh"), totalReadings),
         averageWindSpeed100m |->
             Ratio(SumOf(d, "windSpeed100mKmh"), totalReadings),
         dataTimeSpan |->
             [start |-> IF d = <<>> THEN Undefined ELSE d[1].timestamp,
              end |-> IF d = <<>> THEN Undefined ELSE d[Len(d)].timestamp]]

WAS_analyzeWindGusts(d, strongTh) ==
    LET totalReadings == Len(d)
        gustReadings == CountAtLeast(d, "windGustsKmh", 1)
        strongGustReadings == CountAtLeast(d, "windGustsKmh", strongTh)
        extremeGustReadings ==
            CountAtLeast(d, "windGustsKmh", extremeWindThreshold)
    IN  [totalReadings |-> totalReadings,
         gustReadings |-> gustReadings,
         maxGust |-> WAS_MaxOf(d, "windGustsKmh"),
         avgGust |-> Ratio(SumOf(d, "windGustsKmh"), totalReadings),
         strongGustReadings |-> strongGustReadings,
         extremeGustReadings |-> extremeGustReadings,
         gustPercentage |-> Ratio(gustReadings * 100, totalReadings),
         strongGustPercentage |-> Ratio(strongGustReadings * 100, totalReadings),
         extremeGustPercentage |->
             Ratio(extremeGustReadings * 100, totalReadings)]

WAS_compareWindHeights(d) ==
    LET avgSpeed10m == Ratio(SumOf(d, "windSpeedKmh"), Len(d))
        avgSpeed100m == Ratio(SumOf(d, "windSpeed100mKmh"), Len(d))
    IN  [totalReadings |-> Len(d),
         avgSpeed10m |-> avgSpeed10m,
         avgSpeed100m |-> avgSpeed100m,
         maxSpeed10m |-> WAS_MaxOf(d, "windSpeedKmh"),
         maxSpeed100m |-> WAS_MaxOf(d, "windSpeed100mKmh"),
         speedRatio |-> RatDiv(avgSpeed100m, avgSpeed10m)]

\* ratio.toFixed(2): the hundredths nearest to the ratio
ToFixed2(r) ==
    IF r.den = 0 THEN [text |-> "Infinity"]
    ELSE [hundredths |-> (200 * r.num + r.den) \div (2 * r.den)]

\* the messages of the six rules, in the order of the if statements
RuleMessage ==
    <<"High frequency of strong winds detected. Consider wind farm shutdown protocols.",
      "Significant extreme wind events detected. Review safety protocols.",
      "Extreme wind speeds recorded. Immediate safety protocols recommended.",
      "Frequent strong wind gusts detected. Monitor turbine stress levels.",
      "Significant wind speed increase with height. Consider taller turbines for better efficiency.",
      "Low average wind speeds. May impact energy production efficiency.">>

MutWAS_StrongRule(summary) ==
    IF ~RatLess(summary.strongWindPercentage, RatOfInt(20))
           /\ ~IsNaN(summary.strongWindPercentage)
    THEN <<[type |-> "warning", message |-> RuleMessage[1],
            percentage |-> summary.strongWindPercentage]>>
    ELSE <<>>
\* if (summary.strongWindPercentage > 20)
WAS_StrongRule(summary) ==
    IF RatGreater(summary.strongWindPercentage, RatOfInt(20))
    THEN <<[type |-> "warning", message |-> RuleMessage[1],
            percentage |-> summary.strongWindPercentage]>>
    ELSE <<>>

\* if (summary.extremeWindPercentage > 5)
WAS_ExtremeRule(summary) ==
    IF RatGreater(summary.extremeWindPercentage, RatOfInt(5))
    THEN <<[type |-> "danger", message |-> RuleMessage[2],
            percentage |-> summary.extremeWindPercentage]>>
    ELSE <<>>

\* if (summary.maxWindSpeed > 100)
WAS_MaxSpeedRule(summary) ==
    IF summary.maxWindSpeed > 100
    THEN <<[type |-> "danger", message |-> RuleMessage[3],
            maxSpeed |-> summary.maxWindSpeed]>>
    ELSE <<>>

\* if (gustAnalysis.strongGustPercentage > 15)
WAS_GustRule(gustAnalysis) ==
    IF RatGreater(gustAnalysis.strongGustPercentage, RatOfInt(15))
    THEN <<[type |-> "warning", message |-> RuleMessage[4],
            percentage |-> gustAnalysis.strongGustPercentage]>>
    ELSE <<>>

\* if (heightComparison.speedRatio > 1.5)
WAS_HeightRule(heightComparison) ==
    IF RatGreater(heightComparison.speedRatio, Ratio(3, 2))
    THEN <<[type |-> "info", message |-> RuleMessage[5],
            ratio |-> ToFixed2(heightComparison.speedRatio)]>>
    ELSE <<>>

\* if (summary.averageWindSpeed < 20)
WAS_LowAverageRule(summary) ==
    IF RatLess(summary.averageWindSpeed, RatOfInt(20))
    THEN <<[type |-> "info", message |-> RuleMessage[6],
            avgSpeed |-> summary.averageWindSpeed]>>
    ELSE <<>>

WAS_generateRecommendations(d, strongTh) ==
    LET summary == WAS_calculateSummary(d, strongTh)
        gustAnalysis == WAS_analyzeWindGusts(d, strongTh)
        heightComparison == WAS_compareWindHeights(d)
    IN  WAS_StrongRule(summary) \o WAS_ExtremeRule(summary)
            \o WAS_MaxSpeedRule(summary) \o WAS_GustRule(gustAnalysis)
            \o WAS_HeightRule(heightComparison) \o WAS_LowAverageRule(summary)

\* series made of a block of marked readings and a block of ordinary ones;
\* a kind is <<10 m speed, 100 m speed, gust>>
MarkedCounts == {0, 1, 3}
OrdinaryCounts == {0, 4, 17, 19}
MarkedKinds == { <<100, 100, 0>>, <<101, 101, 0>>, <<60, 60, 60>>, <<10, 10, 60>> }
OrdinaryKinds == { <<20, 30, 0>>, <<19, 30, 0>>, <<40, 60, 0>>, <<40, 61, 0>>,
                   <<0, 0, 0>> }

BlockSeries(a, marked, b, ordinary) ==
    [h \in 1..(a + b) |->
        IF h <= a THEN GustReading(h - 1, marked[1], marked[2], marked[3])
        ELSE GustReading(h - 1, ordinary[1], ordinary[2], ordinary[3])]

RecommendationInputs ==
    { BlockSeries(a, marked, b, ordinary) :
        a \in MarkedCounts, marked \in MarkedKinds,
        b \in OrdinaryCounts, ordinary \in OrdinaryKinds }

\* windAnalysisService.generateRecommendations(data)
RunRecommendations ==
    /\ statsOp = "none"
    /\ statsOp' = "recommendations"
    /\ stats' = WAS_generateRecommendations(data, threshold)
    /\ UNCHANGED <<srvVars, detVars, aggVars, args>>

InitRecs ==
    /\ data \in RecommendationInputs
    /\ threshold = strongWindThreshold
    /\ minDur = minimumDurationHours
    /\ detector = "none"
    /\ periods = <<>>
    /\ AggIdle
    /\ StatsIdle

NextRecs == RunRecommendations

SpecRecs == InitRecs /\ [][NextRecs]_vars

RuleType == <<"warning", "danger", "danger", "warning", "info", "info">>

\* whether the condition of rule k holds on the series, in whole numbers
RuleHolds(k) ==
    LET n == Len(data)
        speeds == SumOf(data, "windSpeedKmh")
        speeds100m == SumOf(data, "windSpeed100mKmh")
    IN  /\ n > 0
        /\ CASE k = 1 -> CountAtLeast(data, "windSpeedKmh", 60) * 100 > 20 * n
             [] k = 2 -> CountAtLeast(data, "windSpeedKmh", 100) * 100 > 5 * n
             [] k = 3 -> \E j \in 1..n : data[j].windSpeedKmh > 100
             [] k = 4 -> CountAtLeast(data, "windGustsKmh", 60) * 100 > 15 * n
             [] k = 5 -> speeds > 0 /\ 2 * speeds100m > 3 * speeds
             [] k = 6 -> speeds < 20 * n

\* C19: generateRecommendations returns exactly the rules whose condition
\* holds, each on its own, in the table order strong% > 20, extreme% > 5,
\* maxSpeed > 100, strongGust% > 15, heightRatio > 1.5, avgSpeed < 20; the
\* comparisons are strict.
C19_RulesIndependentAndOrdered ==
    statsOp = "recommendations" =>
        LET fired == SelectSeq(<<1, 2, 3, 4, 5, 6>>, RuleHolds)
        IN  /\ Len(stats) = Len(fired)
            /\ \A k \in 1..Len(fired) :
                   /\ stats[k].message = RuleMessage[fired[k]]
                   /\ stats[k].type = RuleType[fired[k]]

C19_Witness ==
    /\ statsOp = "recommendations"
    /\ Len(data) = 5
    /\ CountAtLeast(data, "windSpeedKmh", 60) = 1
    /\ data[1].windSpeedKmh = 100
    /\ SumOf(data, "windSpeedKmh") = 100
    /\ Len(stats) = 1
    /\ stats[1].message = RuleMessage[2]
(***************** generateEventRecommendations (C20) **********************)
\* the entries of the event result without error, in list order
ValidEntries == SelectSeq(aggResult.farmResults, LAMBDA r : ~HasError(r))

\* the regions of those entries, each once, in the order of first appearance
RegionsSeen == Dedupe([k \in 1..Len(ValidEntries) |-> ValidEntries[k].farm.region])

\* the mean of the average speeds of the error-free sites of a region
RegionAverage(region) ==
    LET members == SelectSeq(ValidEntries, LAMBDA r : r.farm.region = region)
    IN  RatDivInt(RatSum([k \in 1..Len(members) |-> members[k].averageWindSpeed]),
                  Len(members))

\* the sites of the list that strong wind affects
SitesAffected ==
    { i \in 1..Len(windFarms) : aggResult.farmResults[i].hasStrongWinds }

ExpectedGridWide ==
    IF Cardinality(SitesAffected) * 100 > 50 * Len(windFarms)
    THEN <<"Grid-wide">> ELSE <<>>

ExpectedSafety ==
    LET ranking == aggResult.eventSummary.windSpeedRanking
    IN  IF ranking # <<>> /\ ranking[1].maxWindSpeed > 100
        THEN <<"Safety">> ELSE <<>>

ExpectedRegions ==
    SelectSeq(RegionsSeen,
              LAMBDA region : RatGreater(RegionAverage(region), RatOfInt(80)))

ExpectedOperational ==
    IF aggResult.eventSummary.windSpeedRanking # <<>>
    THEN <<"Operational">> ELSE <<>>

\* C20: generateEventRecommendations emits, in this order, a grid-wide
\* warning iff more than 50% of the sites are affected by strong wind, a
\* danger message iff the top-ranked site's maximum speed exceeds 100, one
\* regional warning per region whose average speed exceeds 80, and an
\* operational note with the first three ranked sites iff the ranking is not
\* empty.
C20_EventRecommendations ==
    aggPc = "eventDone" =>
        LET recs == aggResult.recommendations
            ranking == aggResult.eventSummary.windSpeedRanking
            head == ExpectedGridWide \o ExpectedSafety
            regional == SelectSeq(recs, LAMBDA r : r.impact = "Regional")
            operational == SelectSeq(recs, LAMBDA r : r.impact = "Operational")
        IN  /\ [k \in 1..Len(recs) |-> recs[k].impact]
                   = head \o [k \in 1..Len(ExpectedRegions) |-> "Regional"]
                          \o ExpectedOperational
            /\ [k \in 1..Len(regional) |-> regional[k].region] = ExpectedRegions
            /\ \A k \in 1..Len(operational) :
                   operational[k].farms =
                       [j \in 1..(IF Len(ranking) < 3 THEN Len(ranking) ELSE 3) |->
                           ranking[j].farmName]

(**************** properties of analyzeTimePeriods' matrix *****************)
\* the cells of the returned matrix, row by row
MatrixCells ==
    LET W == Len(args.timePeriods)
    IN  [k \in 1..(Len(aggResult.farms) * W) |->
            aggResult.farms[((k - 1) \div W) + 1].averageSpeeds[((k - 1) % W) + 1]]

NonNullCells == SelectSeq(MatrixCells, LAMBDA c : c # Null)

\* C21: analyzeTimePeriods returns one row per site of the site list in list
\* order, each row with one cell per supplied window in window order (also
\* for a site whose fetch failed); cell (s, w) is the mean 10 m speed of the
\* site's readings with start <= timestamp <= end, or null when there is
\* none; the summary's mean, max and min are taken over the non-null cells.
C21_RectangularMatrix ==
    aggPc = "periodsDone" =>
        LET tps == args.timePeriods
            rows == aggResult.farms
            sm == aggResult.summary
        IN  /\ aggResult.timePeriods = tps
            /\ Len(rows) = Len(windFarms)
            /\ \A i \in 1..Len(windFarms) :
                  /\ rows[i].name = windFarms[i].name
                  /\ Len(rows[i].averageSpeeds) = Len(tps)
                  /\ \A w \in 1..Len(tps) :
                        LET inside == InWindow(i, tps[w])
                            cell == rows[i].averageSpeeds[w]
                        IN  IF inside = <<>> THEN cell = Null
                            ELSE /\ cell # Null
                                 /\ cell.den > 0
                                 /\ cell.num * Len(inside) =
                                       SumOf(inside, "windSpeedKmh") * cell.den
            /\ IF NonNullCells = <<>>
               THEN /\ sm.overallAverageWindSpeed = Zero
                    /\ sm.maxAverageWindSpeed = Zero
                    /\ sm.minAverageWindSpeed = Zero
               ELSE /\ RatEq(RatMul(sm.overallAverageWindSpeed,
                                    RatOfInt(Len(NonNullCells))),
                             RatSum(NonNullCells))
                    /\ \E k \in 1..Len(NonNullCells) :
                          RatEq(sm.maxAverageWindSpeed, NonNullCells[k])
                    /\ \E k \in 1..Len(NonNullCells) :
                          RatEq(sm.minAverageWindSpeed, NonNullCells[k])
                    /\ \A k \in 1..Len(NonNullCells) :
                          /\ ~RatLess(sm.maxAverageWindSpeed, NonNullCells[k])
                          /\ ~RatLess(NonNullCells[k], sm.minAverageWindSpeed)

\* a failed site, and a row with a mean over both bounds of its window
C21_Witness ==
    /\ aggPc = "periodsDone"
    /\ FetchFailed(1)
    /\ aggResult.farms[1].averageSpeeds = <<Null>>
    /\ Len(InWindow(2, args.timePeriods[1])) = 2
    /\ RatEq(aggResult.farms[2].averageSpeeds[1], RatOfInt(80))

(********************* empty window list, empty site list ******************)
\* POST /api/time-periods-analysis with timePeriods.length === 0: the handler
\* answers 400 and does not call the service
TimePeriodsReject ==
    /\ aggPc = "idle"
    /\ "timePeriods" \in DOMAIN args
    /\ Len(args.timePeriods) = 0
    /\ aggPc' = "rejected"
    /\ aggResult' =
          [status |-> 400,
           error |-> "timePeriods array is required and must not be empty"]
    /\ UNCHANGED <<srvVars, detVars, fetchLog, statVars, batchVars, windFarms, upstream, aggIdx,
                   windFarmAnalysis, nzStrongWindPeriods>>

\* the same handler with a non-empty list: analyzeTimePeriods is called
TimePeriodsAccept ==
    /\ "timePeriods" \in DOMAIN args
    /\ Len(args.timePeriods) # 0
    /\ TimePeriodsBegin

\* the site file holds no site (or, for StrongWindPeriodsService, could not
\* be read: loadWindFarms then returns []), or it holds the NumSites sites
InitEmpty ==
    /\ DetIdle
    /\ BatchIdle
    /\ statsOp = "none"
    /\ stats = Null
    /\ args \in { [timePeriods |-> tp] : tp \in TimePeriodLists \cup {<<>>} }
    /\ \E n \in {0, NumSites} :
          /\ windFarms = [i \in 1..n |-> Site(i)]
          /\ upstream \in [1..n -> BatchResponses]
    /\ aggPc = "idle"
    /\ aggIdx = 0
    /\ fetchLog = <<>>
    /\ ServerIdle
    /\ windFarmAnalysis = <<>>
    /\ nzStrongWindPeriods = <<>>
    /\ aggResult = Null

NextEmpty ==
    \/ AnalyzeBegin \/ AnalyzeSite \/ AnalyzeReturn
    \/ EventBegin \/ EventSite \/ EventReturn
    \/ TimePeriodsReject \/ TimePeriodsAccept
    \/ TimePeriodsSite \/ TimePeriodsReturn

SpecEmpty == InitEmpty /\ [][NextEmpty]_vars

\* a batch analysis returned its result
BatchReturned == aggPc \in {"done", "eventDone", "periodsDone"}

\* a batch analysis is past its entry: it loops over the sites or returned
BatchWorking ==
    aggPc \in {"loop", "eventLoop", "periodsLoop"} \/ BatchReturned

\* C22: an empty window list of a time-periods analysis, and an empty site
\* list of any batch analysis, is rejected before any work begins: the
\* request ends with an error, no site is fetched or analysed and no result
\* is returned.
C22_EmptyInputRejected ==
    /\ ("timePeriods" \in DOMAIN args /\ args.timePeriods = <<>>)
          => aggPc \notin {"periodsLoop", "periodsDone"}
    /\ windFarms = <<>> => ~BatchWorking

(************** the provider response and its normalisation ****************)
\* hourly.time(), hourly.timeEnd() and hourly.interval() in hours, and the
\* values arrays of the 10 m speed, the 100 m speed and the 10 m direction
RawTimes == {0, 2}
RawEnds == {0, 2, 3}
RawIntervals == {-1, 0, 1, 2}
RawSpeedArrays == {<<>>, <<50>>, <<70>>, <<50, 70>>, <<70, 50>>, <<70, 70, 70>>}
RawDirectionArrays == {<<>>, <<0, 90>>}

RawResponses ==
    [time : RawTimes, timeEnd : RawEnds, interval : RawIntervals,
     windSpeed10m : RawSpeedArrays, windSpeed100m : RawSpeedArrays,
     windDirection10m : RawDirectionArrays]

\* [...Array((timeEnd - time) / interval)]: the length of the array, or the
\* RangeError that Array() throws for a fraction, a negative number, NaN and
\* Infinity
ArrayLength(raw) ==
    LET span == raw.timeEnd - raw.time
    IN  IF raw.interval = 0 THEN Thrown("RangeError")
        ELSE IF Abs(span) % Abs(raw.interval) # 0 THEN Thrown("RangeError")
        ELSE IF span # 0 /\ ((span < 0) # (raw.interval < 0))
        THEN Thrown("RangeError")
        ELSE [length |-> Abs(span) \div Abs(raw.interval)]

\* values[index] || 0 for a 0-based index
OrZero(values, index) == IF index + 1 <= Len(values) THEN values[index + 1] ELSE 0

\* timeArray.map((time, index) => ({...}))
FormatData(raw, length) ==
    [k \in 1..length |->
        Reading(raw.time + (k - 1) * raw.interval,
                OrZero(raw.windSpeed10m, k - 1),
                OrZero(raw.windSpeed100m, k - 1),
                OrZero(raw.windDirection10m, k - 1))]

\* the promise a fetch function returns, once settled
Resolved(value) == [resolved |-> value]

\* the body of getHistoricalData / getWindDataForPeriod after the response
\* arrived: every exception is caught and answered by []
NormalizeResponse(raw) ==
    LET length == ArrayLength(raw)
    IN  IF IsThrown(length) THEN Resolved(<<>>)
        ELSE Resolved(FormatData(raw, length.length))

\* windDataService.getHistoricalData on the provider response args
RunWDSNormalize ==
    /\ statsOp = "none"
    /\ statsOp' = "WDS.getHistoricalData"
    /\ stats' = NormalizeResponse(args)
    /\ UNCHANGED <<srvVars, detVars, aggVars, args>>

\* multiLocationAnalysisService.getWindDataForPeriod on the response args
RunMLANormalize ==
    /\ statsOp = "none"
    /\ statsOp' = "MLA.getWindDataForPeriod"
    /\ stats' = NormalizeResponse(args)
    /\ UNCHANGED <<srvVars, detVars, aggVars, args>>

InitNorm ==
    /\ DetIdle
    /\ AggIdle
    /\ statsOp = "none"
    /\ stats = Null
    /\ args \in RawResponses

NextNorm == RunWDSNormalize \/ RunMLANormalize

SpecNorm == InitNorm /\ [][NextNorm]_vars

\* the response has a time axis, and a values array whose length differs
\* from the number of timestamps
LengthsDisagree(raw) ==
    /\ ~IsThrown(ArrayLength(raw))
    /\ \E f \in {"windSpeed10m", "windSpeed100m", "windDirection10m"} :
          Len(raw[f]) # ArrayLength(raw).length

\* the response has a time axis of two or more timestamps that do not grow
TimestampsNotIncreasing(raw) ==
    /\ ~IsThrown(ArrayLength(raw))
    /\ ArrayLength(raw).length >= 2
    /\ raw.interval <= 0

\* C23: the normaliser fails with MalformedSourceData, surfaced to its
\* caller, when the parallel arrays of the response disagree in length or the
\* timestamps are not strictly increasing; no readings are returned for such
\* a response.
C23_MalformedSourceDataSurfaced ==
    statsOp \in {"WDS.getHistoricalData", "MLA.getWindDataForPeriod"} =>
        ((LengthsDisagree(args) \/ TimestampsNotIncreasing(args))
            => stats = Thrown("MalformedSourceData"))

(************************* requests to the reading source ******************)
\* the positions of the log that hold a request for this site and window
FetchesFor(site, window) ==
    { k \in 1..Len(fetchLog) :
        fetchLog[k].site = site /\ fetchLog[k].window = window }

\* each site (each site and window) was asked for at most once
AtMostOncePerUnit ==
    \A k, l \in 1..Len(fetchLog) :
        (fetchLog[k].site = fetchLog[l].site
            /\ fetchLog[k].window = fetchLog[l].window) => k = l

\* a failed request is the last one of the run for its site
FailureTerminalForSite ==
    \A k, l \in 1..Len(fetchLog) :
        (k < l /\ fetchLog[k].site = fetchLog[l].site) => fetchLog[k].ok

\* C24: no upstream fetch is retried: one analyzeStrongWindEvent run asks the
\* reading source at most once per site, one analyzeTimePeriods run at most
\* once per (site, window) pair, and after a fetch for a site failed no
\* further fetch for that site is issued in that run.
C24_NoFetchRetried ==
    /\ AtMostOncePerUnit
    /\ FailureTerminalForSite

(************************** parseTimePeriods *******************************)
\* A line is a sequence of lexical pieces: a date (\d{4}-\d{2}-\d{2}), a time
\* (\d{2}:\d{2}), a white-space character (space or tab), a hyphen, or a
\* piece of other text.
Piece(kind, text) == [kind |-> kind, text |-> text]

Space == Piece("ws", " ")
Tab == Piece("ws", "\t")
Hyphen == Piece("hyphen", "-")
StartDay == Piece("date", "2024-01-01")
StartClock == Piece("time", "10:00")
EndDay == Piece("date", "2024-01-02")
EndClock == Piece("time", "16:30")
Word == Piece("text", "to")

\* the documented form: date, space, time, space, hyphen, space, date, space, time
PatternLine ==
    <<StartDay, Space, StartClock, Space, Hyphen, Space, EndDay, Space, EndClock>>

TextLines ==
    { PatternLine,
      <<EndDay, Space, EndClock, Space, Hyphen, Space, StartDay, Space, StartClock>>,
      <<Word, Space>> \o PatternLine,
      PatternLine \o <<Space, Word>>,
      <<StartDay, Tab, StartClock, Space, Space, Hyphen, Tab, EndDay, Space, EndClock>>,
      <<StartDay, Space, StartClock, Space, Word, Space, EndDay, Space, EndClock>>,
      <<StartDay, Space, StartClock, Hyphen, EndDay, Space, EndClock>>,
      <<StartDay, Space, Hyphen, Space, EndDay>>,
      <<Space, Tab>>,
      <<Word>> }

MaxLines == 2

RECURSIVE TextsUpTo(_)
TextsUpTo(n) ==
    IF n = 0 THEN {<<>>}
    ELSE LET prev == TextsUpTo(n - 1)
         IN  prev \cup { Append(tx, l) : tx \in prev, l \in TextLines }

\* line.trim() is a non-empty string
NotBlank(line) == \E k \in 1..Len(line) : line[k].kind # "ws"

KindAt(line, k) == IF k >= 1 /\ k <= Len(line) THEN line[k].kind ELSE "end"

RECURSIVE AfterSpaces(_, _)
\* \s+ from position k: the position after the run of white space, or 0 when
\* there is no white space at k
AfterSpaces(line, k) ==
    IF KindAt(line, k) # "ws" THEN 0
    ELSE IF KindAt(line, k + 1) = "ws" THEN AfterSpaces(line, k + 1)
    ELSE k + 1

\* the regular expression tried at position k: the positions of the four
\* captured groups, or Null
MatchAt(line, k) ==
    LET t1 == AfterSpaces(line, k + 1)
        h == AfterSpaces(line, t1 + 1)
        d2 == AfterSpaces(line, h + 1)
        t2 == AfterSpaces(line, d2 + 1)
    IN  IF /\ KindAt(line, k) = "date"
           /\ t1 # 0 /\ KindAt(line, t1) = "time"
           /\ h # 0 /\ KindAt(line, h) = "hyphen"
           /\ d2 # 0 /\ KindAt(line, d2) = "date"
           /\ t2 # 0 /\ KindAt(line, t2) = "time"
        THEN [startDate |-> line[k].text, startTime |-> line[t1].text,
              endDate |-> line[d2].text, endTime |-> line[t2].text]
        ELSE Null

\* line.match(/.../): the pattern is not anchored, the leftmost match wins
LineMatch(line) ==
    IF \E k \in 1..Len(line) : MatchAt(line, k) # Null
    THEN MatchAt(line,
                 CHOOSE k \in 1..Len(line) :
                     /\ MatchAt(line, k) # Null
                     /\ \A j \in 1..(k - 1) : MatchAt(line, j) = Null)
    ELSE Null

RECURSIVE ParseLines(_, _)
ParseLines(lines, periodsSoFar) ==
    IF lines = <<>> THEN periodsSoFar
    ELSE LET match == LineMatch(lines[1])
         IN  ParseLines(Tail(lines),
                 IF match # Null
                 THEN Append(periodsSoFar,
                          [start |-> match.startDate \o "T" \o match.startTime \o ":00",
                           end |-> match.endDate \o "T" \o match.endTime \o ":00"])
                 ELSE periodsSoFar)

\* text.split("\n") is the list of lines handed in
parseTimePeriods(text) == ParseLines(SelectSeq(text, NotBlank), <<>>)

RunParse ==
    /\ statsOp = "none"
    /\ statsOp' = "parseTimePeriods"
    /\ stats' = [periods |-> parseTimePeriods(args.text)]
    /\ UNCHANGED <<srvVars, detVars, aggVars, args>>

InitParse ==
    /\ DetIdle
    /\ AggIdle
    /\ statsOp = "none"
    /\ stats = Null
    /\ args \in { [text |-> tx] : tx \in TextsUpTo(MaxLines) }

NextParse == RunParse

SpecParse == InitParse /\ [][NextParse]_vars

\* the line is exactly date, space, time, space, hyphen, space, date, space, time
ExactlyPattern(line) ==
    /\ Len(line) = 9
    /\ [k \in 1..9 |-> line[k].kind] =
          <<"date", "ws", "time", "ws", "hyphen", "ws", "date", "ws", "time">>
    /\ \A k \in {2, 4, 6, 8} : line[k] = Space

ExactWindow(line) ==
    [start |-> line[1].text \o "T" \o line[3].text \o ":00",
     end |-> line[7].text \o "T" \o line[9].text \o ":00"]

\* C26: parseTimePeriods accepts exactly the lines of the form
\* "YYYY-MM-DD HH:MM - YYYY-MM-DD HH:MM": each such line yields one
\* {start, end} window, in line order, and every other line (extra text
\* before or after the pattern, other separators) is skipped and yields none.
C26_ExactPatternOnly ==
    statsOp = "parseTimePeriods" =>
        LET exact == SelectSeq(args.text, ExactlyPattern)
        IN  stats.periods = [k \in 1..Len(exact) |-> ExactWindow(exact[k])]

(********************** periods are built completely ***********************)
\* C27: every emitted period is fully built before the duration check: its
\* readings are non-empty and are a complete run, its start is the timestamp
\* of its first reading, its maximum speed is the maximum and its average
\* speed the arithmetic mean of the tested speed over all of its readings
\* (StrongWindPeriodsService and WindAnalysisService detectors).
C27_PeriodFullyBuilt ==
    detector \in {"SWP", "WAS"} =>
        \A k \in 1..Len(periods) :
            LET p == periods[k]
                n == Len(p.readings)
            IN  /\ n > 0
                /\ PStart(p) = p.readings[1].timestamp
                /\ \E r \in MaxRuns : IsRun(p, r)
                /\ \A j \in 1..n : p.readings[j][Tested] <= p.maxWindSpeed
                /\ \E j \in 1..n : p.readings[j][Tested] = p.maxWindSpeed
                /\ p.avgWindSpeed.den > 0
                /\ p.avgWindSpeed.num * n =
                      SumOf(p.readings, Tested) * p.avgWindSpeed.den

\* a kept period of two readings whose second reading is the faster one
C27_Witness ==
    /\ detector = "SWP"
    /\ minDur = 6
    /\ Len(periods) = 1
    /\ Len(periods[1].readings) = 2
    /\ periods[1].startWindSpeed = 60
    /\ periods[1].maxWindSpeed = 70
    /\ periods[1].avgWindSpeed = [num |-> 130, den |-> 2]

(******************* chronological order of the periods ********************)
\* a detector call on its own, or a strong wind periods analysis
InitOrder == Init \/ InitAgg

\* a run either calls one detector on a reading sequence (no site list is
\* involved) or is a strong wind periods analysis over the loaded site list
OrderSWP == windFarms = <<>> /\ RunSWP

OrderMLA == windFarms = <<>> /\ RunMLA

OrderWAS == windFarms = <<>> /\ RunWAS

OrderBegin == windFarms # <<>> /\ AnalyzeBegin

NextOrder ==
    \/ OrderSWP \/ OrderMLA \/ OrderWAS
    \/ OrderBegin \/ AnalyzeSite \/ AnalyzeReturn

SpecOrder == InitOrder /\ [][NextOrder]_vars

\* the timestamps of the input grow strictly
StrictlyIncreasing(d) ==
    \A i \in 1..(Len(d) - 1) : d[i].timestamp < d[i + 1].timestamp

\* C30: for an input with strictly increasing timestamps the periods one
\* detector call returns are in chronological order and pairwise disjoint
\* (start <= end for every period, and a period's end is <= the start of the
\* next one); the merged nzStrongWindPeriods list analyzeStrongWindPeriods
\* returns is ordered by start time ascending across the sites.
C30_ChronologicalAndDisjoint ==
    /\ (detector # "none" /\ StrictlyIncreasing(data)) =>
          /\ \A k \in 1..Len(periods) : PStart(periods[k]) <= PEnd(periods[k])
          /\ \A k \in 1..(Len(periods) - 1) :
                PEnd(periods[k]) <= PStart(periods[k + 1])
    /\ aggPc = "done" =>
          /\ aggResult.nzStrongWindPeriods = nzStrongWindPeriods
          /\ \A k \in 1..(Len(nzStrongWindPeriods) - 1) :
                nzStrongWindPeriods[k].startTime
                    <= nzStrongWindPeriods[k + 1].startTime
          /\ \A i \in 1..Len(windFarms) :
                \A j \in 1..Len(DetectedAt(i)) :
                    \E k \in 1..Len(nzStrongWindPeriods) :
                        /\ nzStrongWindPeriods[k].startTime =
                              DetectedAt(i)[j].startTime
                        /\ nzStrongWindPeriods[k].windFarm.string =
                              windFarms[i].name

\* the sort moved a period of the second site before one of the first site
C30_Witness ==
    /\ aggPc = "done"
    /\ Len(nzStrongWindPeriods) >= 2
    /\ nzStrongWindPeriods[1].windFarm.string = windFarms[2].name
    /\ nzStrongWindPeriods[2].windFarm.string = windFarms[1].name
    /\ nzStrongWindPeriods[1].startTime < nzStrongWindPeriods[2].startTime

(****************** when the cross-site summary is folded ******************)
\* nothing of a site has entered the cross-site summary
NotFolded ==
    /\ eventSummary.farmsAnalyzed = 0
    /\ eventSummary.farmsWithStrongWinds = 0
    /\ eventSummary.maxWindSpeed = 0
    /\ eventSummary.maxWindSpeedLocation = Null
    /\ eventSummary.averageWindSpeeds = <<>>
    /\ eventSummary.windSpeedRanking = <<>>
    /\ "overallStats" \notin DOMAIN eventSummary

\* C28: in analyzeStrongWindEvent the per-site results are folded into the
\* cross-site summary (affected-site count, maximum speed and its location,
\* ranking, overall statistics) only after every per-site task has completed
\* or failed, and the returned result has one farmResults entry per site.
C28_FoldAfterAllSites ==
    /\ (aggPc = "eventLoop" /\ aggIdx <= Len(windFarms)) => NotFolded
    /\ aggPc = "eventDone" => Len(aggResult.farmResults) = Len(windFarms)

\* the loop counter stays within 1..length+1 and one result is kept per
\* finished iteration
EventLoopBounded ==
    aggPc = "eventLoop" =>
        /\ aggIdx \in 1..(Len(windFarms) + 1)
        /\ Len(analysisResults) = aggIdx - 1

\* every step of a started event analysis either finishes one more site or
\* returns with one farmResults entry per site: the loop has at most
\* Len(windFarms) iterations before the return
EventLoopAdvances ==
    [][aggPc = "eventLoop" =>
          \/ (aggPc' = "eventLoop" /\ aggIdx' = aggIdx + 1)
          \/ (aggPc' = "eventDone"
                /\ Len(aggResult'.farmResults) = Len(windFarms))]_vars

\* ranking and overall statistics are computed after the loop
RankingAfterAllSites ==
    aggPc = "eventLoop" =>
        /\ eventSummary.windSpeedRanking = <<>>
        /\ "overallStats" \notin DOMAIN eventSummary

(********************* requests served concurrently ************************)
\* The server is one event loop: a handler runs until its next await (the
\* read of the site file, the fetch of one site), where the handlers of the
\* other requests may run.  MultiLocationAnalysisService ("MLA") and
\* TimePeriodsAnalysisService ("TPA") each keep this.windFarms.
RequestIds == {1, 2}

\* GET /api/multi-location-analysis, POST /api/time-periods-analysis and
\* GET /api/wind-farms
RequestKinds == {"event", "periods", "farms"}

ServerResponses ==
    { [ok |-> TRUE, hourly |-> Hourly(<< <<100, 100, 0>> >>)],
      [ok |-> TRUE, hourly |-> Hourly(<< <<50, 50, -90>> >>)],
      [ok |-> FALSE] }

ServerTimePeriods == << [start |-> 0, end |-> 1] >>

MutParsedFile(k) == IF k = 1 THEN LoadedWindFarms ELSE <<>>
\* JSON.parse(data).windFarms of the k-th read: the site file does not change
ParsedFile(k) == LoadedWindFarms

\* the service whose site list a request of this kind uses
ServiceOf(kind) == IF kind = "periods" THEN "TPA" ELSE "MLA"

NewRequest(kind) ==
    [kind |-> kind, pc |-> "new", farms |-> <<>>, idx |-> 0, results |-> <<>>,
     summary |-> Null, result |-> Null]

\* the synchronous code from the site list being there to the first fetch:
\* the locals are initialised and the for loop takes its iterator of the
\* array this.windFarms refers to at that moment
EnterLoop(req, farms) ==
    [req EXCEPT !.pc = "loop", !.farms = farms, !.idx = 1, !.results = <<>>,
                !.summary = IF req.kind = "event"
                            THEN MLA_EmptySummary(threshold, farms) ELSE Null]

\* if (!this.windFarms) { await this.loadWindFarms(); }
BeginAnalysis(req) ==
    IF siteCache[ServiceOf(req.kind)] = Null
    THEN [req EXCEPT !.pc = "loading"]
    ELSE EnterLoop(req, siteCache[ServiceOf(req.kind)].farms)

\* GET /api/wind-farms: loadWindFarms is called whatever this.windFarms holds
SrvFarmsBegin ==
    /\ \E r \in RequestIds :
          /\ requests[r].kind = "farms"
          /\ requests[r].pc = "new"
          /\ requests' = [requests EXCEPT ![r].pc = "loading"]
    /\ UNCHANGED <<detVars, aggVars, statVars, siteCache, fileReads>>

\* GET /api/multi-location-analysis: entry of analyzeStrongWindEvent
SrvEventBegin ==
    /\ \E r \in RequestIds :
          /\ requests[r].kind = "event"
          /\ requests[r].pc = "new"
          /\ requests' = [requests EXCEPT ![r] = BeginAnalysis(@)]
    /\ UNCHANGED <<detVars, aggVars, statVars, siteCache, fileReads>>

\* POST /api/time-periods-analysis: entry of analyzeTimePeriods
SrvPeriodsBegin ==
    /\ \E r \in RequestIds :
          /\ requests[r].kind = "periods"
          /\ requests[r].pc = "new"
          /\ requests' = [requests EXCEPT ![r] = BeginAnalysis(@)]
    /\ UNCHANGED <<detVars, aggVars, statVars, siteCache, fileReads>>

\* fs.readFile of request r is done: loadWindFarms parses the data, assigns
\* this.windFarms and returns; the caller goes on to its next await
Loaded(r, service) ==
    LET k == fileReads[service] + 1
        list == ParsedFile(k)
    IN  /\ requests[r].pc = "loading"
        /\ ServiceOf(requests[r].kind) = service
        /\ fileReads' = [fileReads EXCEPT ![service] = k]
        /\ siteCache' =
              [siteCache EXCEPT ![service] = [object |-> k, farms |-> list]]
        /\ requests' =
              [requests EXCEPT ![r] =
                  IF @.kind = "farms"
                  THEN [@ EXCEPT !.pc = "done", !.result = list]
                  ELSE EnterLoop(@, list)]

SrvMLALoaded ==
    /\ \E r \in RequestIds : Loaded(r, "MLA")
    /\ UNCHANGED <<detVars, aggVars, statVars>>

SrvTPALoaded ==
    /\ \E r \in RequestIds : Loaded(r, "TPA")
    /\ UNCHANGED <<detVars, aggVars, statVars>>

\* one iteration of the loop of analyzeStrongWindEvent
EventStep(req) ==
    LET farm == req.farms[req.idx]
        outcome == MLA_SiteOutcome(farm, upstream[req.idx], threshold)
    IN  [req EXCEPT
            !.results = Append(@, outcome.entry),
            !.summary = IF outcome.caught THEN @
                        ELSE MLA_UpdateSummary(@, farm, outcome.entry),
            !.idx = @ + 1]

\* the code of analyzeStrongWindEvent after the loop
MLA_EventResult(es, results) ==
    LET ranked == [es EXCEPT !.windSpeedRanking = MLA_windSpeedRanking(results)]
        summary == ranked @@ [overallStats |-> MLA_overallStats(ranked, results)]
    IN  [eventSummary |-> summary,
         farmResults |-> results,
         recommendations |-> MLA_generateEventRecommendations(summary, results)]

SrvEventSite ==
    /\ \E r \in RequestIds :
          /\ requests[r].kind = "event"
          /\ requests[r].pc = "loop"
          /\ requests[r].idx <= Len(requests[r].farms)
          /\ requests' = [requests EXCEPT ![r] = EventStep(@)]
    /\ UNCHANGED <<detVars, aggVars, statVars, siteCache, fileReads>>

SrvEventReturn ==
    /\ \E r \in RequestIds :
          /\ requests[r].kind = "event"
          /\ requests[r].pc = "loop"
          /\ requests[r].idx > Len(requests[r].farms)
          /\ requests' =
                [requests EXCEPT ![r] =
                    [@ EXCEPT !.pc = "done",
                              !.result = MLA_EventResult(requests[r].summary,
                                                         requests[r].results)]]
    /\ UNCHANGED <<detVars, aggVars, statVars, siteCache, fileReads>>

\* one iteration of the loop of analyzeTimePeriods
PeriodsStep(req) ==
    [req EXCEPT
        !.results =
            Append(@, TPA_analyzeWindFarmForTimePeriods(req.farms[req.idx],
                          upstream[req.idx], ServerTimePeriods)),
        !.idx = @ + 1]

\* the code of analyzeTimePeriods after the loop
TPA_Result(results, timePeriods) ==
    [farms |-> results,
     timePeriods |-> timePeriods,
     summary |-> TPA_generateSummary(results, timePeriods)]

SrvPeriodsSite ==
    /\ \E r \in RequestIds :
          /\ requests[r].kind = "periods"
          /\ requests[r].pc = "loop"
          /\ requests[r].idx <= Len(requests[r].farms)
          /\ requests' = [requests EXCEPT ![r] = PeriodsStep(@)]
    /\ UNCHANGED <<detVars, aggVars, statVars, siteCache, fileReads>>

SrvPeriodsReturn ==
    /\ \E r \in RequestIds :
          /\ requests[r].kind = "periods"
          /\ requests[r].pc = "loop"
          /\ requests[r].idx > Len(requests[r].farms)
          /\ requests' =
                [requests EXCEPT ![r] =
                    [@ EXCEPT !.pc = "done",
                              !.result = TPA_Result(requests[r].results,
                                                    ServerTimePeriods)]]
    /\ UNCHANGED <<detVars, aggVars, statVars, siteCache, fileReads>>

\* the process has started (the constructors set this.windFarms = null) and
\* the requests have arrived
InitServer ==
    /\ DetIdle
    /\ StatsIdle
    /\ BatchIdle
    /\ windFarms = <<>>
    /\ upstream \in [1..NumSites -> ServerResponses]
    /\ aggPc = "idle"
    /\ aggIdx = 0
    /\ fetchLog = <<>>
    /\ windFarmAnalysis = <<>>
    /\ nzStrongWindPeriods = <<>>
    /\ aggResult = Null
    /\ requests \in
          { [r \in RequestIds |-> NewRequest(kinds[r])] :
              kinds \in [RequestIds -> RequestKinds] }
    /\ siteCache = [MLA |-> Null, TPA |-> Null]
    /\ fileReads = [MLA |-> 0, TPA |-> 0]

NextServer ==
    \/ SrvFarmsBegin \/ SrvEventBegin \/ SrvPeriodsBegin
    \/ SrvMLALoaded \/ SrvTPALoaded
    \/ SrvEventSite \/ SrvEventReturn
    \/ SrvPeriodsSite \/ SrvPeriodsReturn

SpecServer == InitServer /\ [][NextServer]_vars

\* C25: the site list of each service is loaded at most once per process
\* lifetime and is read-only thereafter: whatever the requests and their
\* interleaving, the site file is read only once per service and the cached
\* list is the object that first load produced.
C25_SiteListLoadedOnce ==
    \A service \in {"MLA", "TPA"} :
        /\ fileReads[service] <= 1
        /\ siteCache[service] # Null => siteCache[service].object = 1

RECURSIVE RunLoop(_)
\* the loop of a request run to its end with no other request in between
RunLoop(req) ==
    IF req.idx > Len(req.farms) THEN req
    ELSE RunLoop(IF req.kind = "event" THEN EventStep(req) ELSE PeriodsStep(req))

\* what a request of this kind answers when it is the only request of a
\* freshly started process, on the same upstream data and site file
AloneResult(kind) ==
    LET list == ParsedFile(1)
        ended == RunLoop(EnterLoop(NewRequest(kind), list))
    IN  IF kind = "farms" THEN list
        ELSE IF kind = "event"
        THEN MLA_EventResult(ended.summary, ended.results)
        ELSE TPA_Result(ended.results, ServerTimePeriods)

====
